---- MODULE Spec2Model ----
(***************************************************************************)
(* The counting activity-log policy (CountingPolicy) exercised by          *)
(* chrome/browser/extensions/activity_log/counting_policy_unittest.cc:     *)
(* a merge buffer of queued actions, a single database thread (the Writer) *)
(* that applies flush, maintenance, scrub and query tasks in FIFO order to *)
(* the activity rows and to the string_ids / url_ids tables.               *)
(*                                                                         *)
(* Time is counted in ticks, TicksPerDay to a day; tick 0 is the null      *)
(* base::Time().  The mock clock starts at noon of day ClockDay.           *)
(***************************************************************************)
EXTENDS FiniteSets, Integers, Sequences, TLC

\* ------------------------------------------------------------ bounds
TicksPerDay == 4
MaxSubmits == 3
MaxQueue == 4
MaxReads == 1
EarlyFlushActions == 500

\* ------------------------------------------------------------ constants
kSizeThresholdForFlush == 200
ClockDay == 8
MaxFaults == 1
MaxLiveSubmits == 2

\* ------------------------------------------------------------ time
Days(n) == n * TicksPerDay

NoonTick == TicksPerDay \div 2

MockClockStart == Days(ClockDay) + NoonTick

NullTime == 0

\* base::Time::LocalMidnight: the start of the day a time falls in.
LocalMidnight(t) == t - (t % TicksPerDay)

MaxTime(a, b) == IF a >= b THEN a ELSE b

MergedTimeLastSeen(old, incoming) == incoming

\* The time of a merged entry: the latest time seen.
MergedTime(old, incoming) == MaxTime(old, incoming)

kCleaningDelay == TicksPerDay \div 2

RetentionLong == Days(14)

RetentionShort == Days(2)

\* ------------------------------------------------------------ records
ACTION_API_CALL == "api_call"

ACTION_DOM_ACCESS == "dom_access"

ACTION_ANY == "any"

NoArgs == <<>>

NoUrl == ""

Action(id, t, type, api) ==
  [extension_id |-> id, time |-> t, action_type |-> type, api_name |-> api,
   args |-> NoArgs, page_url |-> NoUrl, page_title |-> "", arg_url |-> NoUrl]

WithArgs(a, args) == [a EXCEPT !.args = args]

WithPage(a, url, title) == [a EXCEPT !.page_url = url, !.page_title = title]

WithArgUrl(a, url) == [a EXCEPT !.arg_url = url]

\* Util::Serialize: the canonical string of an argument list; no list, no string.
RECURSIVE JoinArgs(_)
JoinArgs(args) ==
  IF Len(args) = 1 THEN "\"" \o args[1] \o "\""
  ELSE "\"" \o args[1] \o "\"," \o JoinArgs(Tail(args))

Serialize(args) == IF args = NoArgs THEN "" ELSE "[" \o JoinArgs(args) \o "]"

\* GURL's spec: a URL without a path gets the path "/".
SerializeUrl(url) ==
  IF url = NoUrl THEN NoUrl
  ELSE IF SubSeq(url, Len(url), Len(url)) = "/" THEN url
  ELSE url \o "/"

ApiArgWhitelistNoConnect == {"extension.sendMessage"}

\* The APIs whose arguments are kept; every other API call is logged without.
ApiArgWhitelist == {"extension.connect", "extension.sendMessage"}

StripArgumentsAnyType(a) ==
  IF a.api_name \notin ApiArgWhitelist THEN NoArgs ELSE a.args

StripNothing(a) == a.args

StripArguments(a) ==
  IF a.action_type = ACTION_API_CALL /\ a.api_name \notin ApiArgWhitelist
  THEN NoArgs ELSE a.args

\* The action as it is queued: arguments stripped and serialized, URLs in
\* their normalized form, count 1.
Queued(a) ==
  [extension_id |-> a.extension_id, time |-> a.time,
   action_type |-> a.action_type, api_name |-> a.api_name,
   args |-> Serialize(StripArguments(a)),
   page_url |-> SerializeUrl(a.page_url), page_title |-> a.page_title,
   arg_url |-> SerializeUrl(a.arg_url), count |-> 1]

DayBucketAnyDay(t) == NullTime

\* The day an action is counted under: merging stays within a day.
DayBucket(t) == LocalMidnight(t)

MergeKeyWithoutArgUrl(e) ==
  [extension_id |-> e.extension_id, day |-> DayBucket(e.time),
   action_type |-> e.action_type, api_name |-> e.api_name, args |-> e.args,
   page_url |-> e.page_url]

\* The merge key of a queued or delivered action.
MergeKey(e) ==
  [extension_id |-> e.extension_id, day |-> DayBucket(e.time),
   action_type |-> e.action_type, api_name |-> e.api_name, args |-> e.args,
   page_url |-> e.page_url, arg_url |-> e.arg_url]

\* ------------------------------------------------------------ state
VARIABLES
  now,                          \* the mock clock
  retention_time,               \* set_retention_time
  last_database_cleaning_time,  \* NullTime: never cleaned, or reset by the test
  queued_actions,               \* the merge buffer: queued entries, one per key
  queued_actions_date,          \* the day of the entries in the buffer
  writer_queue,                 \* the database thread's task queue, FIFO
  activity_rows,                \* the persisted rows
  string_ids,                   \* the string table
  url_ids,                      \* the URL table
  delivered,                    \* what the last finished read handed to its callback
  submitted,                    \* history: the actions given to ProcessAction, in order
  reads,                        \* history: the number of reads issued
  max_cutoff,                   \* history: the latest cutoff a sweep has deleted below
  flushed,                      \* history: how many of the submissions are persisted
  swept_upto,                   \* history: the value of flushed at the last sweep
  urls_removed,                 \* history: RemoveURLs has been called
  pool,                         \* the actions this run draws its submissions from
  db,                           \* the database: "open", "unavailable", "closed"
  in_progress                   \* where each caller stands in the buffer's critical section

vars == <<now, retention_time, last_database_cleaning_time, queued_actions,
          queued_actions_date, writer_queue, activity_rows, string_ids, url_ids,
          delivered, submitted, reads, max_cutoff, flushed, swept_upto,
          urls_removed, pool, db, in_progress>>

\* ------------------------------------------------------------ inputs
T(d, m) == MockClockStart - Days(d) - m

\* The id of LogWithStrippedArguments' test extension.
TestExtensionId == "odlameecjipmbmbejkplpemijjgpljce"

Brewster(t) == Action("punky", t, ACTION_API_CALL, "brewster")

Lets(id, t) ==
  WithArgs(Action(id, t, ACTION_DOM_ACCESS, "lets"), <<"vamoose">>)

\* MoreMerging: one key, several days, not in chronological order.
PoolMerge ==
  {Brewster(T(d, m)) : d \in 0..2, m \in 1..NoonTick} \cup {Brewster(T(0, 0))}

\* RemoveSpecificURLs, GetTodaysActions: actions differing in one field.
PoolKeys ==
  LET base == WithArgUrl(WithPage(Lets("punky", T(0, 0)),
                                  "http://www.google1.com", "Google"),
                         "http://www.google1.com")
  IN {base,
      [base EXCEPT !.time = T(0, 1)],
      [base EXCEPT !.page_title = "Google1"],
      [base EXCEPT !.extension_id = "scoobydoo"],
      [base EXCEPT !.api_name = "extension.sendMessage"],
      [base EXCEPT !.args = <<"too new">>],
      [base EXCEPT !.page_url = "http://www.google.com"],
      [base EXCEPT !.arg_url = "http://www.google.com"],
      [base EXCEPT !.arg_url = NoUrl],
      [base EXCEPT !.action_type = ACTION_API_CALL,
                   !.api_name = "extension.sendMessage"]}

\* LogWithStrippedArguments, GetTodaysActions: argument stripping.
PoolArgs ==
  {WithArgs(Action(TestExtensionId, T(0, 0), ACTION_API_CALL,
                   "extension.connect"),
            <<"hello", "world">>),
   WithArgs(Brewster(T(0, 2)), <<"woof">>),
   WithArgs(Brewster(T(0, 1)), <<"meow">>),
   WithArgs(Action("punky", T(0, 1), ACTION_API_CALL, "extension.sendMessage"),
            <<"not", "stripped">>),
   WithPage(Lets("punky", T(0, 0)), "http://www.google.com", "")}

\* MergingAndExpiring, StringTableCleaning: old and recent rows.
PoolExpire ==
  {Brewster(T(3, 2)), Brewster(T(3, 1)), Brewster(T(2, 1)), Brewster(T(0, 0)),
   WithPage(Brewster(T(7, 0)), "http://www.google.com/", ""),
   Action("punky", T(0, 0), ACTION_API_CALL, "tabs.create")}

\* GetOlderActions, and the other extension of GetTodaysActions: actions of
\* the day read, of a later and of an earlier day, and of another extension.
PoolOlder ==
  {WithArgs(Brewster(T(3, 2)), <<"woof">>),
   WithPage(Lets("punky", T(3, 0)), "http://www.google.com", ""),
   WithPage(WithArgs(Lets("punky", T(0, 0)), <<"too new">>),
            "http://www.google.com", ""),
   WithPage(WithArgs(Lets("punky", T(7, 0)), <<"too old">>),
            "http://www.google.com", ""),
   WithPage(Lets("scoobydoo", T(0, 0)), "http://www.google.com", "")}

\* RemoveSpecificURLs, RemoveAllURLs: actions of one extension and day that
\* differ in their URLs, a tick apart.
PoolScrub ==
  {WithArgUrl(WithPage(Lets("punky", T(0, 2)), "http://www.google1.com",
                       "Google"),
              "http://www.google1.com"),
   WithArgUrl(WithPage(Lets("punky", T(0, 1)), "http://www.google1.com",
                       "Google"),
              "http://www.google.com"),
   WithPage(Lets("punky", T(0, 0)), "http://www.google2.com", "Google"),
   WithArgUrl(WithPage(Lets("punky", T(0, -1)), "http://www.google.com",
                       "Google"),
              "http://www.google1.com"),
   WithArgUrl(WithPage(Lets("punky", T(0, -1)), "http://www.google.com",
                       "Google"),
              "http://www.args-url.com")}

\* LogAndFetchFilteredActions: an API call and a DOM access of the test
\* extension, and an action of another extension, day, page and argument URL.
PoolFilter ==
  {Action(TestExtensionId, T(0, 0), ACTION_API_CALL, "tabs.testMethod"),
   WithPage(Action(TestExtensionId, T(0, 0), ACTION_DOM_ACCESS,
                   "document.write"),
            "http://www.google.com", ""),
   WithArgUrl(WithPage(Lets("punky", T(3, 0)), "http://www.google1.com",
                       "Google"),
              "http://www.google1.com")}

\* The filters of LogAndFetchFilteredActions' reads, and some that differ
\* from them in one constraint.
Filters ==
  [extension_id : {"", TestExtensionId},
   action_type : {ACTION_ANY, ACTION_API_CALL, ACTION_DOM_ACCESS},
   api_name : {"", "tabs.testMethod", "tabs."},
   page_url : {"", "http://www.google.com/", "http://www.google.com",
               "http://www.goo"},
   arg_url : {"", "http://www.google1.com/", "http://www.google1.com"}]

\* EarlyFlush: the i-th of its API calls, each with a name of its own.
EarlyFlushAction(i) ==
  Action("punky", MockClockStart, ACTION_API_CALL, "apicall_" \o ToString(i))

SubmitLimit(p) == IF p = "early" THEN EarlyFlushActions ELSE MaxSubmits

ActionsOf(p) ==
  CASE p = "merge" -> PoolMerge
    [] p = "keys" -> PoolKeys
    [] p = "args" -> PoolArgs
    [] p = "expire" -> PoolExpire
    [] p = "older" -> PoolOlder
    [] p = "filter" -> PoolFilter
    [] p \in {"scrub_all", "scrub_some"} -> PoolScrub

\* What the reads of a run ask for: the extensions and the days of its actions.
ReadIds(p) == {a.extension_id : a \in ActionsOf(p)}

ReadDays(p) ==
  {(LocalMidnight(MockClockStart) - LocalMidnight(a.time)) \div TicksPerDay :
     a \in ActionsOf(p)}

\* ------------------------------------------------------------ the merge buffer
MergeIntoReset(x, e) ==
  [x EXCEPT !.count = e.count, !.time = MergedTime(x.time, e.time)]

\* Merging adds the counts and takes the later time.
MergeInto(x, e) ==
  [x EXCEPT !.count = x.count + e.count, !.time = MergedTime(x.time, e.time)]

\* Look the entry's key up among the queued entries: merge on a hit, insert
\* on a miss.
Insert(buffer, e) ==
  IF \E x \in buffer : MergeKey(x) = MergeKey(e)
  THEN {IF MergeKey(x) = MergeKey(e) THEN MergeInto(x, e) ELSE x : x \in buffer}
  ELSE buffer \cup {e}

\* A flush task; upto is history: the number of submissions the batch
\* reaches, and faults the number of times the flush has failed.
FlushTask(batch, upto) ==
  [kind |-> "flush", batch |-> batch, upto |-> upto, faults |-> 0]

MaintainTask == [kind |-> "maintain"]

FullOneLate(buffer) == Cardinality(buffer) > kSizeThresholdForFlush + 1

FullOneEarly(buffer) == Cardinality(buffer) >= kSizeThresholdForFlush

\* More queued entries than the threshold: time to flush.
Full(buffer) == Cardinality(buffer) > kSizeThresholdForFlush

\* Handing a batch to the database thread: its flush, then the maintenance.
Handoff(queue, batch, upto) ==
  IF batch = {} THEN queue
  ELSE queue \o <<FlushTask(batch, upto), MaintainTask>>

\* History: how many of the submissions have been handed to the database
\* thread, done of them already persisted.
HandedOff(queue, done) ==
  LET flushes == {n \in DOMAIN queue : queue[n].kind = "flush"}
  IN IF flushes = {} THEN done
     ELSE queue[CHOOSE n \in flushes : \A m \in flushes : m <= n].upto

\* ------------------------------------------------------------ the dictionary
\* A table of interned values: entries [id, value].  NullId stands for NULL.
NullId == 0

Values(table) == {x.value : x \in table}

Ids(table) == {x.id : x \in table}

\* The id of a value; NULL for the empty value and for one not interned.
IdOf(table, v) ==
  IF v \in Values(table) THEN (CHOOSE x \in table : x.value = v).id
  ELSE NullId

\* The value of an id; NULL and a dangling id read as the empty value.
ValueOf(table, id) ==
  IF id \in Ids(table) THEN (CHOOSE x \in table : x.id = id).value ELSE ""

NextId(table) ==
  IF table = {} THEN 1
  ELSE 1 + (CHOOSE m \in Ids(table) : \A n \in Ids(table) : n <= m)

Some(S) == CHOOSE v \in S : TRUE

\* Up to four of the values, in some order (four at a time keeps the
\* recursion of InsertFrom shallow).
FirstFew(S) ==
  LET a == Some(S)
      b == Some(S \ {a})
      c == Some(S \ {a, b})
      d == Some(S \ {a, b, c})
  IN IF S \ {a} = {} THEN <<a>>
     ELSE IF S \ {a, b} = {} THEN <<a, b>>
     ELSE IF S \ {a, b, c} = {} THEN <<a, b, c>>
     ELSE <<a, b, c, d>>

\* Insert the values, none of them in the table yet, under the ids from id on.
RECURSIVE InsertFrom(_, _, _)
InsertFrom(table, vals, id) ==
  IF vals = {} THEN table
  ELSE LET few == FirstFew(vals)
       IN InsertFrom(
            table \cup {[id |-> id + i - 1, value |-> few[i]] : i \in DOMAIN few},
            vals \ {few[i] : i \in DOMAIN few}, id + Len(few))

\* Intern every value not yet in the table, each under a fresh id.
InternAll(table, vals) ==
  InsertFrom(table, vals \ Values(table), NextId(table))

StringsOf(batch) ==
  UNION {{e.extension_id, e.api_name, e.args} : e \in batch} \ {""}

UrlsOf(batch) == UNION {{e.page_url, e.arg_url} : e \in batch} \ {""}

\* ------------------------------------------------------------ the store
\* The rowid of a row not inserted yet.
NoRowId == 0

\* The persisted form of a queued entry, its strings and URLs as ids.
ToRow(e, strings, urls) ==
  [rowid |-> NoRowId,
   extension_id |-> IdOf(strings, e.extension_id), day |-> DayBucket(e.time),
   action_type |-> e.action_type, api_name |-> IdOf(strings, e.api_name),
   args |-> IdOf(strings, e.args), page_url |-> IdOf(urls, e.page_url),
   page_title |-> e.page_title, arg_url |-> IdOf(urls, e.arg_url),
   time |-> e.time, count |-> e.count]

RowKey(r) ==
  [extension_id |-> r.extension_id, day |-> r.day,
   action_type |-> r.action_type, api_name |-> r.api_name, args |-> r.args,
   page_url |-> r.page_url, arg_url |-> r.arg_url]

\* The row an entry of some key is merged into: the first of that key.
FirstOfKey(rows, r) ==
  \A x \in rows : RowKey(x) = RowKey(r) => r.rowid <= x.rowid

MergeRowIgnoring(r, incoming) == r

\* The row with the entry of its key, if there is one, merged into it.
MergeRow(r, incoming) ==
  LET hit == {n \in incoming : RowKey(n) = RowKey(r)}
  IN IF hit = {} THEN r ELSE MergeInto(r, CHOOSE n \in hit : TRUE)

NextRowId(rows) ==
  IF rows = {} THEN 1
  ELSE 1 + (CHOOSE m \in {r.rowid : r \in rows} :
              \A r \in rows : r.rowid <= m)

\* The rows of new keys are inserted, each under a rowid of its own.
UpsertRows(rows, incoming, keys) ==
  {IF FirstOfKey(rows, r) THEN MergeRow(r, incoming) ELSE r : r \in rows}
    \cup {[x.value EXCEPT !.rowid = x.id] :
             x \in InsertFrom({}, {n \in incoming : RowKey(n) \notin keys},
                              NextRowId(rows))}

\* flush(batch): for each entry, add its count to the row of its key and take
\* the later time, or insert it as a new row.
Upsert(rows, batch, strings, urls) ==
  UpsertRows(rows, {ToRow(e, strings, urls) : e \in batch},
             {RowKey(r) : r \in rows})

\* The row as an action again, its ids looked up in the tables.
FromRow(r, strings, urls) ==
  [rowid |-> r.rowid,
   extension_id |-> ValueOf(strings, r.extension_id), time |-> r.time,
   action_type |-> r.action_type, api_name |-> ValueOf(strings, r.api_name),
   args |-> ValueOf(strings, r.args), page_url |-> ValueOf(urls, r.page_url),
   page_title |-> r.page_title, arg_url |-> ValueOf(urls, r.arg_url),
   count |-> r.count]

\* ------------------------------------------------------------ the janitor
CleanCutoffUnaligned(t, retention) == t - retention

\* Rows before local midnight of (now - retention) are expired.
CleanCutoff(t, retention) == LocalMidnight(t - retention)

CleanNothing(rows, cutoff) == rows

CleanOlderThan(rows, cutoff) == {r \in rows : r.time >= cutoff}

ReferencedStringsNoApi(rows) == UNION {{r.extension_id, r.args} : r \in rows}

\* The ids the rows refer to.
ReferencedStrings(rows) ==
  UNION {{r.extension_id, r.api_name, r.args} : r \in rows}

ReferencedUrls(rows) == UNION {{r.page_url, r.arg_url} : r \in rows}

CleanTableKeepAll(table, referenced) == table

\* Delete the table's entries that no row references.
CleanTable(table, referenced) == {x \in table : x.id \in referenced}

CleaningAlwaysDue(t, last) == TRUE

CleaningUnlessReset(t, last) == last # NullTime /\ t - last > kCleaningDelay

\* A cleaning is due if there was none yet or the last one is longer ago than
\* the delay.
CleaningDue(t, last) == last = NullTime \/ t - last > kCleaningDelay

\* ------------------------------------------------------------ the query engine
MergeResultsPersistedOnly(persisted, buffered) == persisted

MergeResultsNoMerge(persisted, buffered) == persisted \cup buffered

\* The union of the persisted and the buffered actions, those of one key
\* merged: counts added, the later time taken.
MergeResults(persisted, buffered) ==
  LET Hit(a) == {b \in buffered : MergeKey(b) = MergeKey(a)}
      First(a) ==
        \A x \in persisted : MergeKey(x) = MergeKey(a) => a.rowid <= x.rowid
      Merged(a) ==
        IF Hit(a) = {} \/ ~First(a) THEN a
        ELSE MergeInto(a, CHOOSE b \in Hit(a) : TRUE)
  IN {Merged(a) : a \in persisted}
       \cup {b \in buffered : \A a \in persisted : MergeKey(a) # MergeKey(b)}

MatchesAnyExtension(a, id, day) == DayBucket(a.time) = day

Matches(a, id, day) == a.extension_id = id /\ DayBucket(a.time) = day

\* A queued entry among the rows of a read: it has no rowid yet.
Unsaved(b) ==
  [rowid |-> NoRowId, extension_id |-> b.extension_id, time |-> b.time,
   action_type |-> b.action_type, api_name |-> b.api_name, args |-> b.args,
   page_url |-> b.page_url, page_title |-> b.page_title,
   arg_url |-> b.arg_url, count |-> b.count]

\* A row of a read as the action handed to the callback.
Returned(r) ==
  [extension_id |-> r.extension_id, time |-> r.time,
   action_type |-> r.action_type, api_name |-> r.api_name, args |-> r.args,
   page_url |-> r.page_url, page_title |-> r.page_title,
   arg_url |-> r.arg_url, count |-> r.count]

\* readData's rows before ordering.
ReadRows(rows, strings, urls, buffered, id, day) ==
  MergeResults(
    {a \in {FromRow(r, strings, urls) : r \in rows} : Matches(a, id, day)},
    {Unsaved(b) : b \in {b \in buffered : Matches(b, id, day)}})

\* The orderings of a set of actions.
AnyOrder(S) ==
  {s \in [1..Cardinality(S) -> S] :
     \A i, j \in 1..Cardinality(S) : i # j => s[i] # s[j]}

OrderingsAny(S) == AnyOrder(S)

\* The orderings of a set of actions by descending time.
Orderings(S) ==
  {s \in [1..Cardinality(S) -> S] :
     /\ \A i, j \in 1..Cardinality(S) : i # j => s[i] # s[j]
     /\ \A i \in 1..Cardinality(S) - 1 : s[i].time >= s[i + 1].time}

IsWholeString(p, s) == p = s

\* SQL's LIKE 'p%': p is a prefix of s.
IsPrefix(p, s) == Len(p) <= Len(s) /\ SubSeq(s, 1, Len(p)) = p

FilterMatchesNoAny(a, f) ==
  /\ f.extension_id = "" \/ a.extension_id = f.extension_id
  /\ a.action_type = f.action_type
  /\ f.api_name = "" \/ IsPrefix(f.api_name, a.api_name)
  /\ f.page_url = "" \/ IsPrefix(f.page_url, a.page_url)
  /\ f.arg_url = "" \/ a.arg_url = f.arg_url

\* The five constraints of readFilteredData, an empty one and ACTION_ANY
\* constraining nothing.
FilterMatches(a, f) ==
  /\ f.extension_id = "" \/ a.extension_id = f.extension_id
  /\ f.action_type = ACTION_ANY \/ a.action_type = f.action_type
  /\ f.api_name = "" \/ IsPrefix(f.api_name, a.api_name)
  /\ f.page_url = "" \/ IsPrefix(f.page_url, a.page_url)
  /\ f.arg_url = "" \/ a.arg_url = f.arg_url

\* readFilteredData's rows, of all days, before ordering.
ReadFilteredRows(rows, strings, urls, buffered, f) ==
  MergeResults(
    {a \in {FromRow(r, strings, urls) : r \in rows} : FilterMatches(a, f)},
    {Unsaved(b) : b \in {b \in buffered : FilterMatches(b, f)}})

\* ------------------------------------------------------------ the URL scrubber
UrlListedNonEmpty(url, urls) == url # NoUrl /\ url \in urls

\* An empty list of URLs lists every URL.
UrlListed(url, urls) == url # NoUrl /\ (urls = {} \/ url \in urls)

ScrubRowWhole(r, urls, table) ==
  LET any == \/ UrlListed(ValueOf(table, r.page_url), urls)
             \/ UrlListed(ValueOf(table, r.arg_url), urls)
  IN [r EXCEPT !.page_url = IF any THEN NullId ELSE @,
               !.page_title = IF any THEN "" ELSE @,
               !.arg_url = IF any THEN NullId ELSE @]

\* Clear the row's page URL with its title, and its argument URL, each if listed.
ScrubRow(r, urls, table) ==
  LET page == UrlListed(ValueOf(table, r.page_url), urls)
      arg == UrlListed(ValueOf(table, r.arg_url), urls)
  IN [r EXCEPT !.page_url = IF page THEN NullId ELSE @,
               !.page_title = IF page THEN "" ELSE @,
               !.arg_url = IF arg THEN NullId ELSE @]

ScrubRowsDropping(rows, urls, table) ==
  LET scrubbed == {ScrubRow(r, urls, table) : r \in rows}
  IN {r \in scrubbed : FirstOfKey(scrubbed, r)}

\* Every row is scrubbed in place.
ScrubRows(rows, urls, table) == {ScrubRow(r, urls, table) : r \in rows}

UrlLists ==
  {{}, {"http://www.google1.com/", "http://www.google2.com/",
        "http://www.url_not_in_db.com/"}}

\* RemoveAllURLs removes every URL, RemoveSpecificURLs those of its list.
UrlsRemovedIn(p) ==
  IF p = "scrub_all" THEN {}
  ELSE {"http://www.google1.com/", "http://www.google2.com/",
        "http://www.url_not_in_db.com/"}

\* ------------------------------------------------------------ initial state
NoResult == [kind |-> "none"]

\* The callers that may be inside ProcessAction or Flush at the same time.
Callers == {1, 2}

NoEntry == [count |-> 0]

\* A caller outside the critical section.
Idle == [pc |-> "idle", e |-> NoEntry, hit |-> FALSE, batch |-> {}]

InitIn(pools, state) ==
  /\ pool \in pools
  /\ db = state
  /\ in_progress = [c \in Callers |-> Idle]
  /\ now = MockClockStart
  /\ retention_time = RetentionLong
  /\ last_database_cleaning_time = NullTime
  /\ queued_actions = {}
  /\ queued_actions_date = NullTime
  /\ writer_queue = <<>>
  /\ activity_rows = {}
  /\ string_ids = {}
  /\ url_ids = {}
  /\ delivered = NoResult
  /\ submitted = <<>>
  /\ reads = 0
  /\ max_cutoff = NullTime
  /\ flushed = 0
  /\ swept_upto = 0
  /\ urls_removed = FALSE

InitWith(pools) == InitIn(pools, "open")

\* ------------------------------------------------------------ the callers
\* ProcessAction: queue the action.  A change of day flushes what is queued;
\* more queued entries than the threshold flushes them all.
ProcessAction(a) ==
  LET e == Queued(a)
      date == LocalMidnight(a.time)
      day_changed == date # queued_actions_date
      kept == IF day_changed THEN {} ELSE queued_actions
      queue1 == IF day_changed
                THEN Handoff(writer_queue, queued_actions, Len(submitted))
                ELSE writer_queue
      buffer == Insert(kept, e)
      full == Full(buffer)
  IN /\ Len(submitted) < SubmitLimit(pool)
     /\ Len(queue1) + (IF full THEN 2 ELSE 0) <= MaxQueue
     /\ queued_actions' = IF full THEN {} ELSE buffer
     /\ writer_queue' = IF full THEN Handoff(queue1, buffer, Len(submitted) + 1)
                        ELSE queue1
     /\ queued_actions_date' = date
     /\ submitted' = Append(submitted, a)
     /\ UNCHANGED <<now, retention_time, last_database_cleaning_time,
                    activity_rows, string_ids, url_ids, delivered, reads,
                    max_cutoff, flushed, swept_upto, urls_removed, pool, db, in_progress>>

FlushIdle ==
  /\ queued_actions # {}
  /\ UNCHANGED vars

\* Flush(), and the periodic timer: hand over whatever is queued.
Flush ==
  /\ queued_actions # {}
  /\ Len(writer_queue) + 2 <= MaxQueue
  /\ writer_queue' = Handoff(writer_queue, queued_actions, Len(submitted))
  /\ queued_actions' = {}
  /\ UNCHANGED <<now, retention_time, last_database_cleaning_time,
                 queued_actions_date, activity_rows, string_ids, url_ids,
                 delivered, submitted, reads, max_cutoff, flushed, swept_upto,
                 urls_removed, pool, db, in_progress>>

\* ReadData(extension_id, day): the query task takes the queued entries of
\* that extension and day with it.
ReadData(id, day_offset) ==
  LET day == LocalMidnight(now) - Days(day_offset)
  IN /\ reads < MaxReads
     /\ Len(writer_queue) + 1 <= MaxQueue
     /\ writer_queue' = Append(writer_queue,
          [kind |-> "query", extension_id |-> id, day |-> day,
           day_offset |-> day_offset,
           buffered |-> {b \in queued_actions : Matches(b, id, day)},
           seen |-> submitted,
           handed |-> HandedOff(writer_queue, flushed),
           after_scrub |-> urls_removed])
     /\ reads' = reads + 1
     /\ UNCHANGED <<now, retention_time, last_database_cleaning_time,
                    queued_actions, queued_actions_date, activity_rows,
                    string_ids, url_ids, delivered, submitted, max_cutoff,
                    flushed, swept_upto, urls_removed, pool, db, in_progress>>

\* ReadFilteredData(extension_id, type, api_name, page_url, arg_url): the query
\* task takes the queued entries that satisfy the filter with it.
ReadFilteredData(f) ==
  /\ reads < MaxReads
  /\ Len(writer_queue) + 1 <= MaxQueue
  /\ writer_queue' = Append(writer_queue,
       [kind |-> "filtered_query", filter |-> f,
        buffered |-> {b \in queued_actions : FilterMatches(b, f)},
        seen |-> submitted])
  /\ reads' = reads + 1
  /\ UNCHANGED <<now, retention_time, last_database_cleaning_time,
                 queued_actions, queued_actions_date, activity_rows,
                 string_ids, url_ids, delivered, submitted, max_cutoff,
                 flushed, swept_upto, urls_removed, pool, db, in_progress>>

\* MergingAndExpiring: two reads one after the other, here of the same
\* extension and day; again is history: the read is the second of the two.
ReadDataTwice(id, day_offset) ==
  LET day == LocalMidnight(now) - Days(day_offset)
      query == [kind |-> "query", extension_id |-> id, day |-> day,
                day_offset |-> day_offset,
                buffered |-> {b \in queued_actions : Matches(b, id, day)},
                seen |-> submitted,
                handed |-> HandedOff(writer_queue, flushed),
                after_scrub |-> urls_removed, again |-> FALSE]
  IN /\ reads < MaxReads
     /\ Len(writer_queue) + 2 <= MaxQueue
     /\ writer_queue' =
          writer_queue \o <<query, [query EXCEPT !.again = TRUE]>>
     /\ reads' = reads + 1
     /\ UNCHANGED <<now, retention_time, last_database_cleaning_time,
                    queued_actions, queued_actions_date, activity_rows,
                    string_ids, url_ids, delivered, submitted, max_cutoff,
                    flushed, swept_upto, urls_removed, pool, db, in_progress>>

\* The same filtered read twice, one after the other.
ReadFilteredDataTwice(f) ==
  LET query == [kind |-> "filtered_query", filter |-> f,
                buffered |-> {b \in queued_actions : FilterMatches(b, f)},
                seen |-> submitted, again |-> FALSE]
  IN /\ reads < MaxReads
     /\ Len(writer_queue) + 2 <= MaxQueue
     /\ writer_queue' =
          writer_queue \o <<query, [query EXCEPT !.again = TRUE]>>
     /\ reads' = reads + 1
     /\ UNCHANGED <<now, retention_time, last_database_cleaning_time,
                    queued_actions, queued_actions_date, activity_rows,
                    string_ids, url_ids, delivered, submitted, max_cutoff,
                    flushed, swept_upto, urls_removed, pool, db, in_progress>>

RemoveURLsDirect(urls) ==
  /\ ~urls_removed
  /\ Len(Handoff(writer_queue, queued_actions, Len(submitted))) <= MaxQueue
  /\ writer_queue' = Handoff(writer_queue, queued_actions, Len(submitted))
  /\ activity_rows' = ScrubRows(activity_rows, urls, url_ids)
  /\ queued_actions' = {}
  /\ urls_removed' = TRUE
  /\ UNCHANGED <<now, retention_time, last_database_cleaning_time,
                 queued_actions_date, string_ids, url_ids, delivered,
                 submitted, reads, max_cutoff, flushed, swept_upto, pool, db, in_progress>>

\* RemoveURLs(urls): what is queued is flushed first, so that the scrub
\* reaches it as well.
RemoveURLs(urls) ==
  /\ ~urls_removed
  /\ Len(Handoff(writer_queue, queued_actions, Len(submitted))) + 1 <= MaxQueue
  /\ writer_queue' =
       Append(Handoff(writer_queue, queued_actions, Len(submitted)),
              [kind |-> "remove_urls", urls |-> urls])
  /\ queued_actions' = {}
  /\ urls_removed' = TRUE
  /\ UNCHANGED <<now, retention_time, last_database_cleaning_time,
                 queued_actions_date, activity_rows, string_ids, url_ids,
                 delivered, submitted, reads, max_cutoff, flushed, swept_upto,
                 pool, db, in_progress>>

\* ScheduleAndForget(CheckQueueSize), after the test's submissions: a task that
\* looks at the buffer.
ScheduleCheckQueueSize ==
  /\ Len(submitted) = SubmitLimit(pool)
  /\ reads < MaxReads
  /\ Len(writer_queue) + 1 <= MaxQueue
  /\ writer_queue' = Append(writer_queue, [kind |-> "check_queue_size"])
  /\ reads' = reads + 1
  /\ UNCHANGED <<now, retention_time, last_database_cleaning_time,
                 queued_actions, queued_actions_date, activity_rows,
                 string_ids, url_ids, delivered, submitted, max_cutoff,
                 flushed, swept_upto, urls_removed, pool, db, in_progress>>

\* set_retention_time: the tests shorten the retention, never lengthen it.
set_retention_time(delta) ==
  /\ delta < retention_time
  /\ retention_time' = delta
  /\ UNCHANGED <<now, last_database_cleaning_time, queued_actions,
                 queued_actions_date, writer_queue, activity_rows, string_ids,
                 url_ids, delivered, submitted, reads, max_cutoff, flushed,
                 swept_upto, urls_removed, pool, db, in_progress>>

\* The test's last_database_cleaning_time_ = base::Time().
ForceCleaning ==
  /\ last_database_cleaning_time # NullTime
  /\ last_database_cleaning_time' = NullTime
  /\ UNCHANGED <<now, retention_time, queued_actions, queued_actions_date,
                 writer_queue, activity_rows, string_ids, url_ids, delivered,
                 submitted, reads, max_cutoff, flushed, swept_upto,
                 urls_removed, pool, db, in_progress>>

CanEnterUnlocked(c) == in_progress[c].pc = "idle"

\* The buffer's critical section: a caller enters when no caller is inside.
CanEnter(c) == \A d \in Callers : in_progress[d].pc = "idle"

\* ProcessAction, step by step, for callers running side by side.  First
\* step: enter, flush what is queued on a change of day, and look the key up.
LookUp(c, a) ==
  LET e == Queued(a)
      date == LocalMidnight(a.time)
      day_changed == date # queued_actions_date
      kept == IF day_changed THEN {} ELSE queued_actions
      queue1 == IF day_changed
                THEN Handoff(writer_queue, queued_actions, Len(submitted))
                ELSE writer_queue
  IN /\ CanEnter(c)
     /\ Len(submitted) < SubmitLimit(pool)
     /\ Len(queue1) <= MaxQueue
     /\ queued_actions' = kept
     /\ writer_queue' = queue1
     /\ queued_actions_date' = date
     /\ submitted' = Append(submitted, a)
     /\ in_progress' =
          [in_progress EXCEPT ![c] =
             [pc |-> "insert", e |-> e,
              hit |-> \E x \in kept : MergeKey(x) = MergeKey(e),
              batch |-> {}]]
     /\ UNCHANGED <<now, retention_time, last_database_cleaning_time,
                    activity_rows, string_ids, url_ids, delivered, reads,
                    max_cutoff, flushed, swept_upto, urls_removed, pool, db>>

\* Second step: merge on a hit, insert on a miss.
MergeOrInsert(c) ==
  LET e == in_progress[c].e
  IN /\ in_progress[c].pc = "insert"
     /\ queued_actions' =
          IF in_progress[c].hit
          THEN {IF MergeKey(x) = MergeKey(e) THEN MergeInto(x, e) ELSE x :
                  x \in queued_actions}
          ELSE queued_actions \cup {e}
     /\ in_progress' = [in_progress EXCEPT ![c].pc = "check"]
     /\ UNCHANGED <<now, retention_time, last_database_cleaning_time,
                    queued_actions_date, writer_queue, activity_rows,
                    string_ids, url_ids, delivered, submitted, reads,
                    max_cutoff, flushed, swept_upto, urls_removed, pool, db>>

\* Third step: the threshold check; a full buffer is taken to be handed over.
CheckThreshold(c) ==
  /\ in_progress[c].pc = "check"
  /\ in_progress' =
       [in_progress EXCEPT ![c] =
          IF Full(queued_actions)
          THEN [Idle EXCEPT !.pc = "swap", !.batch = queued_actions]
          ELSE Idle]
  /\ UNCHANGED <<now, retention_time, last_database_cleaning_time,
                 queued_actions, queued_actions_date, writer_queue,
                 activity_rows, string_ids, url_ids, delivered, submitted,
                 reads, max_cutoff, flushed, swept_upto, urls_removed, pool,
                 db>>

\* Flush(), step by step: enter and take what is queued.
TakeQueued(c) ==
  /\ CanEnter(c)
  /\ queued_actions # {}
  /\ in_progress' =
       [in_progress EXCEPT ![c] =
          [Idle EXCEPT !.pc = "swap", !.batch = queued_actions]]
  /\ UNCHANGED <<now, retention_time, last_database_cleaning_time,
                 queued_actions, queued_actions_date, writer_queue,
                 activity_rows, string_ids, url_ids, delivered, submitted,
                 reads, max_cutoff, flushed, swept_upto, urls_removed, pool,
                 db>>

\* Last step of both: hand the batch taken to the database thread, clear the
\* buffer and leave.
SwapAndClear(c) ==
  /\ in_progress[c].pc = "swap"
  /\ Len(writer_queue) + 2 <= MaxQueue
  /\ writer_queue' =
       Handoff(writer_queue, in_progress[c].batch, Len(submitted))
  /\ queued_actions' = {}
  /\ in_progress' = [in_progress EXCEPT ![c] = Idle]
  /\ UNCHANGED <<now, retention_time, last_database_cleaning_time,
                 queued_actions_date, activity_rows, string_ids, url_ids,
                 delivered, submitted, reads, max_cutoff, flushed, swept_upto,
                 urls_removed, pool, db>>

\* The last task of the database thread; pending is history: the number of
\* entries that were still queued when Close() was called.
CloseTask(pending) == [kind |-> "close", pending |-> pending]

CloseTasksDropping(queue, batch, upto) ==
  queue \o <<CloseTask(Cardinality(batch))>>

\* What Close() posts: the flush of what is queued, then the close.
CloseTasks(queue, batch, upto) ==
  Handoff(queue, batch, upto) \o <<CloseTask(Cardinality(batch))>>

\* Close() has been called.
Closing ==
  db = "closed" \/ \E n \in DOMAIN writer_queue : writer_queue[n].kind = "close"

\* Close(): hand over what is queued, then have the database closed.
Close ==
  /\ ~Closing
  /\ writer_queue' = CloseTasks(writer_queue, queued_actions, Len(submitted))
  /\ queued_actions' = {}
  /\ UNCHANGED <<now, retention_time, last_database_cleaning_time,
                 queued_actions_date, activity_rows, string_ids, url_ids,
                 delivered, submitted, reads, max_cutoff, flushed, swept_upto,
                 urls_removed, pool, in_progress, db>>

\* ------------------------------------------------------------ the database thread
DequeueLast(queue) ==
  [task |-> queue[Len(queue)], rest |-> SubSeq(queue, 1, Len(queue) - 1)]

\* The database thread takes its tasks in the order they were posted.
Dequeue(queue) == [task |-> Head(queue), rest |-> Tail(queue)]

Task == Dequeue(writer_queue).task

AvailableAnyway(state, found) == found

\* What a read finds: nothing when there is no database to read.
Available(state, found) == IF state = "open" THEN found ELSE {}

\* What a write leaves: without a database nothing is written.
Written(state, before, after) == IF state = "open" THEN after ELSE before

WriterFlush ==
  /\ writer_queue # <<>> /\ Task.kind = "flush"
  /\ LET strings == InternAll(string_ids, StringsOf(Task.batch))
         urls == InternAll(url_ids, UrlsOf(Task.batch))
     IN /\ string_ids' = Written(db, string_ids, strings)
        /\ url_ids' = Written(db, url_ids, urls)
        /\ activity_rows' =
             Written(db, activity_rows,
                     Upsert(activity_rows, Task.batch, strings, urls))
  /\ flushed' = Task.upto
  /\ writer_queue' = Dequeue(writer_queue).rest
  /\ UNCHANGED <<now, retention_time, last_database_cleaning_time,
                 queued_actions, queued_actions_date, delivered, submitted,
                 reads, max_cutoff, swept_upto, urls_removed, pool, db, in_progress>>

RollbackNothing(before, partial) == partial

\* A flush is one transaction: a fault undoes what it has written so far.
Rollback(before, partial) == before

\* A flush that fails after some entries of its batch, in any order, have
\* been written: the store is rolled back and the whole batch is tried again.
WriterFlushFault ==
  /\ writer_queue # <<>> /\ Task.kind = "flush"
  /\ db = "open"
  /\ Task.faults < MaxFaults
  /\ \E applied \in SUBSET Task.batch :
       LET strings == InternAll(string_ids, StringsOf(applied))
           urls == InternAll(url_ids, UrlsOf(applied))
       IN /\ string_ids' = Rollback(string_ids, strings)
          /\ url_ids' = Rollback(url_ids, urls)
          /\ activity_rows' =
               Rollback(activity_rows,
                        Upsert(activity_rows, applied, strings, urls))
  /\ writer_queue' = <<[Task EXCEPT !.faults = @ + 1]>>
                        \o Dequeue(writer_queue).rest
  /\ UNCHANGED <<now, retention_time, last_database_cleaning_time,
                 queued_actions, queued_actions_date, delivered, submitted,
                 reads, max_cutoff, flushed, swept_upto, urls_removed, pool,
                 db, in_progress>>

WriterMaintainStuck ==
  /\ writer_queue # <<>> /\ Task.kind = "maintain"
  /\ UNCHANGED vars

\* maintain(): when a cleaning is due, delete the expired rows, then the
\* strings and URLs that no remaining row references.
WriterMaintain ==
  /\ writer_queue # <<>> /\ Task.kind = "maintain"
  /\ IF db = "open" /\ CleaningDue(now, last_database_cleaning_time)
     THEN LET cutoff == CleanCutoff(now, retention_time)
              rows == CleanOlderThan(activity_rows, cutoff)
          IN /\ activity_rows' = rows
             /\ string_ids' = CleanTable(string_ids, ReferencedStrings(rows))
             /\ url_ids' = CleanTable(url_ids, ReferencedUrls(rows))
             /\ last_database_cleaning_time' = now
             /\ max_cutoff' = MaxTime(max_cutoff, cutoff)
             /\ swept_upto' = flushed
     ELSE UNCHANGED <<activity_rows, string_ids, url_ids,
                      last_database_cleaning_time, max_cutoff, swept_upto>>
  /\ writer_queue' = Dequeue(writer_queue).rest
  /\ UNCHANGED <<now, retention_time, queued_actions, queued_actions_date,
                 delivered, submitted, reads, flushed, urls_removed, pool, db, in_progress>>

SweepStagesTablesFirst == <<"referenced", "rows", "tables">>

\* The steps of a cleaning, in their order: delete the expired rows, collect
\* the ids the remaining rows refer to, delete the other table entries.
SweepStages == <<"rows", "referenced", "tables">>

\* A cleaning under way: the steps still to do, its cutoff, and the ids
\* collected.
SweepTask(stages, cutoff, strings, urls) ==
  [kind |-> "sweep", stages |-> stages, cutoff |-> cutoff,
   strings |-> strings, urls |-> urls]

\* maintain(), step by step.  First: is a cleaning due?
WriterStartSweep ==
  /\ writer_queue # <<>> /\ Task.kind = "maintain"
  /\ writer_queue' =
       IF db = "open" /\ CleaningDue(now, last_database_cleaning_time)
       THEN <<SweepTask(SweepStages, CleanCutoff(now, retention_time), {}, {})>>
              \o Dequeue(writer_queue).rest
       ELSE Dequeue(writer_queue).rest
  /\ UNCHANGED <<now, retention_time, last_database_cleaning_time,
                 queued_actions, queued_actions_date, activity_rows,
                 string_ids, url_ids, delivered, submitted, reads, max_cutoff,
                 flushed, swept_upto, urls_removed, pool, db, in_progress>>

\* Then one step of the cleaning at a time; the last one ends the task.
WriterSweepStep ==
  /\ writer_queue # <<>> /\ Task.kind = "sweep"
  /\ LET stage == Head(Task.stages)
         rest == Tail(Task.stages)
         strings == IF stage = "referenced"
                    THEN ReferencedStrings(activity_rows) ELSE Task.strings
         urls == IF stage = "referenced"
                 THEN ReferencedUrls(activity_rows) ELSE Task.urls
     IN /\ activity_rows' =
             IF stage = "rows" THEN CleanOlderThan(activity_rows, Task.cutoff)
             ELSE activity_rows
        /\ string_ids' =
             IF stage = "tables" THEN CleanTable(string_ids, Task.strings)
             ELSE string_ids
        /\ url_ids' =
             IF stage = "tables" THEN CleanTable(url_ids, Task.urls)
             ELSE url_ids
        /\ IF rest = <<>>
           THEN /\ writer_queue' = Dequeue(writer_queue).rest
                /\ last_database_cleaning_time' = now
                /\ max_cutoff' = MaxTime(max_cutoff, Task.cutoff)
                /\ swept_upto' = flushed
           ELSE /\ writer_queue' =
                     <<SweepTask(rest, Task.cutoff, strings, urls)>>
                       \o Dequeue(writer_queue).rest
                /\ UNCHANGED <<last_database_cleaning_time, max_cutoff,
                               swept_upto>>
  /\ UNCHANGED <<now, retention_time, queued_actions, queued_actions_date,
                 delivered, submitted, reads, flushed, urls_removed, pool, db,
                 in_progress>>

WriterQueryMerging ==
  /\ writer_queue # <<>> /\ Task.kind = "query"
  /\ LET result == Available(db, ReadRows(activity_rows, string_ids, url_ids,
                                          Task.buffered, Task.extension_id,
                                          Task.day))
         stored == {RowKey(r) : r \in activity_rows}
         strings == InternAll(string_ids, StringsOf(Task.buffered))
         urls == InternAll(url_ids, UrlsOf(Task.buffered))
     IN /\ \E rows \in Orderings(result) :
             delivered' =
               [kind |-> "read", extension_id |-> Task.extension_id,
                day |-> Task.day, day_offset |-> Task.day_offset,
                rows |-> [n \in DOMAIN rows |-> Returned(rows[n])],
                seen |-> Task.seen,
                exact |-> Task.day >= max_cutoff /\ ~urls_removed,
                cutoff |-> max_cutoff, upto |-> swept_upto,
                scrubbed |-> urls_removed, after_scrub |-> Task.after_scrub,
                split |-> \E b \in Task.buffered :
                            RowKey(ToRow(b, string_ids, url_ids)) \in stored]
        /\ string_ids' = strings
        /\ url_ids' = urls
        /\ activity_rows' = Upsert(activity_rows, Task.buffered, strings, urls)
  /\ writer_queue' = Dequeue(writer_queue).rest
  /\ UNCHANGED <<now, retention_time, last_database_cleaning_time,
                 queued_actions, queued_actions_date, submitted, reads,
                 max_cutoff, flushed, swept_upto, urls_removed, pool, db,
                 in_progress>>

WriterQuery ==
  /\ writer_queue # <<>> /\ Task.kind = "query"
  /\ LET result == Available(db, ReadRows(activity_rows, string_ids, url_ids,
                                          Task.buffered, Task.extension_id,
                                          Task.day))
         stored == {RowKey(r) : r \in activity_rows}
     IN \E rows \in Orderings(result) :
          delivered' =
            [kind |-> "read", extension_id |-> Task.extension_id,
             day |-> Task.day, day_offset |-> Task.day_offset,
             rows |-> [n \in DOMAIN rows |-> Returned(rows[n])],
             seen |-> Task.seen,
             exact |-> Task.day >= max_cutoff /\ ~urls_removed,
             cutoff |-> max_cutoff, upto |-> swept_upto,
             scrubbed |-> urls_removed, after_scrub |-> Task.after_scrub,
             split |-> \E b \in Task.buffered :
                         RowKey(ToRow(b, string_ids, url_ids)) \in stored]
  /\ writer_queue' = Dequeue(writer_queue).rest
  /\ UNCHANGED <<now, retention_time, last_database_cleaning_time,
                 queued_actions, queued_actions_date, activity_rows,
                 string_ids, url_ids, submitted, reads, max_cutoff, flushed,
                 swept_upto, urls_removed, pool, db, in_progress>>

WriterFilteredQuery ==
  /\ writer_queue # <<>> /\ Task.kind = "filtered_query"
  /\ LET result == Available(db, ReadFilteredRows(activity_rows, string_ids,
                                                  url_ids, Task.buffered,
                                                  Task.filter))
     IN \E rows \in AnyOrder(result) :
          delivered' =
            [kind |-> "filtered", filter |-> Task.filter,
             rows |-> [n \in DOMAIN rows |-> Returned(rows[n])],
             seen |-> Task.seen,
             exact |-> max_cutoff = NullTime /\ ~urls_removed]
  /\ writer_queue' = Dequeue(writer_queue).rest
  /\ UNCHANGED <<now, retention_time, last_database_cleaning_time,
                 queued_actions, queued_actions_date, activity_rows,
                 string_ids, url_ids, submitted, reads, max_cutoff, flushed,
                 swept_upto, urls_removed, pool, db, in_progress>>

WriterRemoveURLs ==
  /\ writer_queue # <<>> /\ Task.kind = "remove_urls"
  /\ activity_rows' = ScrubRows(activity_rows, Task.urls, url_ids)
  /\ writer_queue' = Dequeue(writer_queue).rest
  /\ UNCHANGED <<now, retention_time, last_database_cleaning_time,
                 queued_actions, queued_actions_date, string_ids, url_ids,
                 delivered, submitted, reads, max_cutoff, flushed, swept_upto,
                 urls_removed, pool, db, in_progress>>

WriterCheckQueueSize ==
  /\ writer_queue # <<>> /\ Task.kind = "check_queue_size"
  /\ delivered' = [kind |-> "queue_size", size |-> Cardinality(queued_actions)]
  /\ writer_queue' = Dequeue(writer_queue).rest
  /\ UNCHANGED <<now, retention_time, last_database_cleaning_time,
                 queued_actions, queued_actions_date, activity_rows,
                 string_ids, url_ids, submitted, reads, max_cutoff, flushed,
                 swept_upto, urls_removed, pool, db, in_progress>>

\* The close task: the database is released and the policy is gone.
WriterClose ==
  /\ writer_queue # <<>> /\ Task.kind = "close"
  /\ db' = "closed"
  /\ delivered' = [kind |-> "closed", pending |-> Task.pending]
  /\ writer_queue' = Dequeue(writer_queue).rest
  /\ UNCHANGED <<now, retention_time, last_database_cleaning_time,
                 queued_actions, queued_actions_date, activity_rows,
                 string_ids, url_ids, submitted, reads, max_cutoff, flushed,
                 swept_upto, urls_removed, pool, in_progress>>

Next ==
  \/ \E a \in ActionsOf(pool) : ProcessAction(a)
  \/ Flush
  \/ \E id \in ReadIds(pool), d \in ReadDays(pool) : ReadData(id, d)
  \/ \E urls \in UrlLists : RemoveURLs(urls)
  \/ \E delta \in {RetentionLong, RetentionShort} : set_retention_time(delta)
  \/ ForceCleaning
  \/ WriterFlush
  \/ WriterMaintain
  \/ WriterQuery
  \/ WriterRemoveURLs

Init == InitWith({"expire"})

Spec == Init /\ [][Next]_vars

\* The runs without retention changes and scrubs: submissions, flushes, reads.
InitMerge == InitWith({"merge", "keys", "args", "older"})

NextMerge ==
  \/ \E a \in ActionsOf(pool) : ProcessAction(a)
  \/ Flush
  \/ \E id \in ReadIds(pool), d \in ReadDays(pool) : ReadData(id, d)
  \/ WriterFlush
  \/ WriterMaintain
  \/ WriterQuery

SpecMerge == InitMerge /\ [][NextMerge]_vars

\* RemoveAllURLs, RemoveSpecificURLs: submissions, then the scrub, and a read.
InitScrub == InitWith({"scrub_all", "scrub_some"})

NextScrub ==
  \/ \E a \in ActionsOf(pool) : ~urls_removed /\ ProcessAction(a)
  \/ Flush
  \/ \E id \in ReadIds(pool), d \in ReadDays(pool) : ReadData(id, d)
  \/ RemoveURLs(UrlsRemovedIn(pool))
  \/ WriterFlush
  \/ WriterMaintain
  \/ WriterQuery
  \/ WriterRemoveURLs

SpecScrub == InitScrub /\ [][NextScrub]_vars

\* LogAndFetchFilteredActions: submissions, flushes, filtered reads.
InitFilter == InitWith({"filter"})

NextFilter ==
  \/ \E a \in ActionsOf(pool) : ProcessAction(a)
  \/ Flush
  \/ \E f \in Filters : ReadFilteredData(f)
  \/ WriterFlush
  \/ WriterMaintain
  \/ WriterFilteredQuery

SpecFilter == InitFilter /\ [][NextFilter]_vars

\* EarlyFlush: 500 API calls of different names, and a look at the buffer;
\* with the buffer at the threshold, also the last call once more.
InitEarly == InitWith({"early"})

NextEarly ==
  \/ ProcessAction(EarlyFlushAction(Len(submitted)))
  \/ /\ Cardinality(queued_actions) = kSizeThresholdForFlush
     /\ submitted[Len(submitted)] # submitted[Len(submitted) - 1]
     /\ ProcessAction(submitted[Len(submitted)])
  \/ ScheduleCheckQueueSize
  \/ WriterFlush
  \/ WriterMaintain
  \/ WriterCheckQueueSize

SpecEarly == InitEarly /\ [][NextEarly]_vars

\* The database thread's message loop: it runs the task at the head of its
\* queue whenever there is one.
WriterRuns ==
  \/ WriterFlush
  \/ WriterMaintain
  \/ WriterQuery
  \/ WriterFilteredQuery

\* The filters that ask for an extension and a type of action only.
FiltersByWho ==
  {f \in Filters : f.api_name = "" /\ f.page_url = "" /\ f.arg_url = ""}

\* CheckReadData: a read is posted and the test waits for its callback.
InitLive == InitWith({"merge", "filter"})

NextLive ==
  \/ /\ Len(submitted) < MaxLiveSubmits
     /\ \E a \in ActionsOf(pool) : ProcessAction(a)
  \/ Flush
  \/ /\ pool # "filter"
     /\ \E id \in ReadIds(pool), d \in ReadDays(pool) : ReadData(id, d)
  \/ pool = "filter" /\ \E f \in FiltersByWho : ReadFilteredData(f)
  \/ WriterRuns

SpecLive == InitLive /\ [][NextLive]_vars /\ WF_vars(WriterRuns)

\* Actions are logged, and then only the timer and the database thread run.
InitTimer == InitWith({"merge", "keys"})

NextTimer ==
  \/ /\ Len(submitted) < MaxLiveSubmits
     /\ \E a \in ActionsOf(pool) : ProcessAction(a)
  \/ Flush
  \/ WriterFlush
  \/ WriterMaintain

SpecTimer ==
  /\ InitTimer /\ [][NextTimer]_vars
  /\ WF_vars(Flush)
  /\ WF_vars(WriterFlush \/ WriterMaintain)

\* Each read made twice in a row.
InitReread == InitWith({"merge", "keys", "filter"})

NextReread ==
  \/ \E a \in ActionsOf(pool) : ProcessAction(a)
  \/ Flush
  \/ /\ pool # "filter"
     /\ \E id \in ReadIds(pool), d \in ReadDays(pool) : ReadDataTwice(id, d)
  \/ pool = "filter" /\ \E f \in Filters : ReadFilteredDataTwice(f)
  \/ WriterFlush
  \/ WriterMaintain
  \/ WriterQuery
  \/ WriterFilteredQuery

SpecReread == InitReread /\ [][NextReread]_vars

\* StringTableCleaning, with the cleaning taken step by step.
InitSweep == InitWith({"expire"})

NextSweep ==
  \/ \E a \in ActionsOf(pool) : ProcessAction(a)
  \/ Flush
  \/ \E delta \in {RetentionLong, RetentionShort} : set_retention_time(delta)
  \/ ForceCleaning
  \/ WriterFlush
  \/ WriterStartSweep
  \/ WriterSweepStep

SpecSweep == InitSweep /\ [][NextSweep]_vars

\* Callers running ProcessAction and Flush side by side.
InitCallers == InitWith({"merge", "keys"})

NextCallers ==
  \/ \E c \in Callers, a \in ActionsOf(pool) : LookUp(c, a)
  \/ \E c \in Callers : MergeOrInsert(c)
  \/ \E c \in Callers : CheckThreshold(c)
  \/ \E c \in Callers : TakeQueued(c)
  \/ \E c \in Callers : SwapAndClear(c)
  \/ WriterFlush
  \/ WriterMaintain

SpecCallers == InitCallers /\ [][NextCallers]_vars

\* Flushes that may fail once before they succeed.
InitFault == InitWith({"merge", "keys"})

NextFault ==
  \/ \E a \in ActionsOf(pool) : ProcessAction(a)
  \/ Flush
  \/ WriterFlush
  \/ WriterFlushFault
  \/ WriterMaintain

SpecFault == InitFault /\ [][NextFault]_vars

\* A log whose database could not be opened: actions are logged and read.
InitUnavailable == InitIn({"early", "filter"}, "unavailable")

NextUnavailable ==
  \/ pool = "early" /\ ProcessAction(EarlyFlushAction(Len(submitted)))
  \/ pool # "early" /\ \E a \in ActionsOf(pool) : ProcessAction(a)
  \/ pool # "early" /\ Flush
  \/ /\ pool # "early"
     /\ \E id \in ReadIds(pool), d \in ReadDays(pool) : ReadData(id, d)
  \/ pool # "early" /\ \E f \in Filters : ReadFilteredData(f)
  \/ WriterFlush
  \/ WriterMaintain
  \/ WriterQuery
  \/ WriterFilteredQuery

SpecUnavailable == InitUnavailable /\ [][NextUnavailable]_vars

\* Construct: actions are logged and the policy is closed; nothing is
\* called on a policy after its Close().
InitClose == InitWith({"merge", "keys"})

NextClose ==
  \/ ~Closing /\ \E a \in ActionsOf(pool) : ProcessAction(a)
  \/ ~Closing /\ Flush
  \/ Close
  \/ WriterFlush
  \/ WriterMaintain
  \/ WriterClose

SpecClose == InitClose /\ [][NextClose]_vars

\* ------------------------------------------------------------ properties
Range(s) == {s[i] : i \in DOMAIN s}

RECURSIVE SumCounts(_)
SumCounts(rows) ==
  IF rows = <<>> THEN 0 ELSE Head(rows).count + SumCounts(Tail(rows))

\* A finished read whose day no sweep has reached and no scrub has touched.
ReadExact == delivered.kind = "read" /\ delivered.exact

\* The submitted action a is counted under the entry e: they agree on the
\* extension, the day, the type, the API, the arguments as logged and the URLs.
CountedUnder(a, e) ==
  /\ a.extension_id = e.extension_id
  /\ LocalMidnight(a.time) = LocalMidnight(e.time)
  /\ a.action_type = e.action_type
  /\ a.api_name = e.api_name
  /\ Serialize(StripArguments(a)) = e.args
  /\ SerializeUrl(a.page_url) = e.page_url
  /\ SerializeUrl(a.arg_url) = e.arg_url

\* The submissions a read was issued after, of its extension and day.
Asked ==
  {i \in DOMAIN delivered.seen :
     /\ delivered.seen[i].extension_id = delivered.extension_id
     /\ LocalMidnight(delivered.seen[i].time) = delivered.day}

Under(row) == {i \in Asked : CountedUnder(delivered.seen[i], row)}

Latest(S) == CHOOSE i \in S : \A j \in S : delivered.seen[j].time <= delivered.seen[i].time

\* C1: a read returns, for every key submitted on its day, exactly one row,
\* whose count is the number of submissions of the key and whose time is the
\* latest of their times, whatever the order of submission.
C1_MergeCountAndTime ==
  ReadExact =>
    /\ \A i \in Asked :
         Cardinality({n \in DOMAIN delivered.rows :
                        CountedUnder(delivered.seen[i], delivered.rows[n])}) = 1
    /\ \A n \in DOMAIN delivered.rows :
         LET row == delivered.rows[n]
         IN /\ Under(row) # {}
            /\ row.count = Cardinality(Under(row))
            /\ row.time = delivered.seen[Latest(Under(row))].time

\* Three submissions of one key, the latest of them neither first nor last.
C1_Witness ==
  /\ ReadExact
  /\ \E n \in DOMAIN delivered.rows :
       LET subs == Under(delivered.rows[n])
       IN /\ delivered.rows[n].count = 3
          /\ \E i, j, k \in subs :
               /\ i < j /\ j < k
               /\ delivered.seen[j].time > delivered.seen[i].time
               /\ delivered.seen[j].time > delivered.seen[k].time

\* Every entry the program holds: queued, handed over and not yet flushed, or
\* persisted.
InFlight ==
  UNION {writer_queue[i].batch :
           i \in {j \in DOMAIN writer_queue : writer_queue[j].kind = "flush"}}

Persisted == {FromRow(r, string_ids, url_ids) : r \in activity_rows}

SubmittedUnder(e) ==
  {i \in DOMAIN submitted : CountedUnder(submitted[i], e)}

SameKeyAndDay(e1, e2) ==
  /\ e1.extension_id = e2.extension_id
  /\ LocalMidnight(e1.time) = LocalMidnight(e2.time)
  /\ e1.action_type = e2.action_type
  /\ e1.api_name = e2.api_name
  /\ e1.args = e2.args
  /\ e1.page_url = e2.page_url
  /\ e1.arg_url = e2.arg_url

\* C2: actions of different days never merge, in the buffer or in the store:
\* an entry counts only submissions of its own day and carries the time of
\* one of them, and the store holds one row per key and day.
C2_NoMergeAcrossDays ==
  ~urls_removed =>
    /\ \A e \in queued_actions \cup InFlight \cup Persisted :
         /\ e.count <= Cardinality(SubmittedUnder(e))
         /\ e.time \in {submitted[i].time : i \in SubmittedUnder(e)}
    /\ \A r \in activity_rows : r.day = LocalMidnight(r.time)
    /\ \A r1, r2 \in Persisted : SameKeyAndDay(r1, r2) => r1 = r2

\* Day D, day D+1, day D again, all flushed: two rows, of counts 2 and 1, the
\* first with the later time of its day.
C2_Witness ==
  /\ Len(submitted) = 3
  /\ LocalMidnight(submitted[1].time) = LocalMidnight(submitted[3].time)
  /\ LocalMidnight(submitted[2].time) = LocalMidnight(submitted[1].time) + Days(1)
  /\ submitted[1].time > submitted[3].time
  /\ queued_actions = {} /\ writer_queue = <<>>
  /\ Cardinality(activity_rows) = 2
  /\ \E r1, r2 \in activity_rows :
       /\ r1.count = 2 /\ r1.time = submitted[1].time
       /\ r2.count = 1 /\ r2.time = submitted[2].time
       /\ [r1 EXCEPT !.rowid = 0, !.day = 0, !.time = 0, !.count = 0]
            = [r2 EXCEPT !.rowid = 0, !.day = 0, !.time = 0, !.count = 0]

\* Nothing queued or in flight, nothing expired, nothing scrubbed.
Settled ==
  /\ queued_actions = {} /\ writer_queue = <<>>
  /\ ~urls_removed
  /\ \A i \in DOMAIN submitted : submitted[i].time >= max_cutoff

\* C3: two submitted actions are combined into one row if and only if they
\* agree on every key field: once all is flushed, each submission is counted
\* under exactly one row, the rows differ pairwise in a key field, and a row
\* counts the submissions of its key, whatever their page titles.
C3_MergeIffSameKey ==
  Settled =>
    /\ \A i \in DOMAIN submitted :
         Cardinality({r \in Persisted : CountedUnder(submitted[i], r)}) = 1
    /\ \A r1, r2 \in Persisted : SameKeyAndDay(r1, r2) => r1 = r2
    /\ \A r \in Persisted : r.count = Cardinality(SubmittedUnder(r))
    /\ \A i, j \in DOMAIN submitted :
         (\E r \in Persisted : {i, j} \subseteq SubmittedUnder(r))
           <=> SameKeyAndDay(Queued(submitted[i]), Queued(submitted[j]))

\* Two submissions of one key with different page titles in one row, and a
\* third that differs from them in the argument URL alone in another.
C3_Witness ==
  /\ Settled
  /\ \E r1, r2 \in Persisted :
       /\ r1.count = 2
       /\ \E i, j \in SubmittedUnder(r1) :
            submitted[i].page_title # submitted[j].page_title
       /\ r2.count = 1
       /\ r1.arg_url # r2.arg_url
       /\ [r1 EXCEPT !.rowid = 0, !.arg_url = "", !.count = 0, !.time = 0,
                         !.page_title = ""]
            = [r2 EXCEPT !.rowid = 0, !.arg_url = "", !.count = 0, !.time = 0,
                         !.page_title = ""]

\* C4: read your writes: a read returns every action submitted before it,
\* flushed or not, each under exactly one row; the counts of its rows add up
\* to the number of those submissions and no row is earlier than a
\* submission it counts.
C4_ReadYourWrites ==
  ReadExact =>
    /\ \A i \in Asked :
         Cardinality({n \in DOMAIN delivered.rows :
                        CountedUnder(delivered.seen[i], delivered.rows[n])}) = 1
    /\ SumCounts(delivered.rows) = Cardinality(Asked)
    /\ \A n \in DOMAIN delivered.rows : \A i \in Under(delivered.rows[n]) :
         delivered.rows[n].time >= delivered.seen[i].time

\* A key partly persisted and partly still queued when it is read.
C4_Witness ==
  /\ ReadExact
  /\ delivered.split
  /\ \E n \in DOMAIN delivered.rows : delivered.rows[n].count = 3

\* C5: whenever a task on the database thread looks at the buffer, and in
\* every other state, the number of queued entries is at most the flush
\* threshold of 200, also after many more submissions of different keys.
C5_QueueWithinThreshold ==
  /\ Cardinality(queued_actions) <= kSizeThresholdForFlush
  /\ delivered.kind = "queue_size" => delivered.size <= kSizeThresholdForFlush

\* All of EarlyFlush's actions submitted, a threshold flush persisted, and
\* CheckQueueSize has seen what is left in the buffer.
C5_Witness ==
  /\ Len(submitted) = EarlyFlushActions
  /\ flushed > kSizeThresholdForFlush
  /\ Cardinality(activity_rows) > kSizeThresholdForFlush
  /\ delivered.kind = "queue_size"
  /\ delivered.size > 0

\* C6: every string id and URL id of a persisted row has an entry in its
\* table, and the entries are those of a submitted action of the row's day:
\* no sweep deletes an entry that a surviving row refers to.
C6_ReferentialIntegrity ==
  \A r \in activity_rows :
    /\ {r.extension_id, r.api_name} \subseteq Ids(string_ids)
    /\ {r.args} \ {NullId} \subseteq Ids(string_ids)
    /\ {r.page_url, r.arg_url} \ {NullId} \subseteq Ids(url_ids)
    /\ \E i \in DOMAIN submitted :
         /\ ValueOf(string_ids, r.extension_id) = submitted[i].extension_id
         /\ ValueOf(string_ids, r.api_name) = submitted[i].api_name
         /\ r.day = LocalMidnight(submitted[i].time)

\* A sweep has deleted the API name of an expired row while a row of the
\* same extension survives.
C6_Witness ==
  /\ max_cutoff > NullTime
  /\ activity_rows # {}
  /\ \E i \in 1..swept_upto :
       /\ submitted[i].api_name \notin Values(string_ids)
       /\ submitted[i].extension_id \in Values(string_ids)

\* The submissions a finished read has to count: of an expired day, those
\* persisted only after the last sweep or still queued; of another day, all.
Live ==
  IF delivered.day < delivered.cutoff
  THEN {i \in Asked : i > delivered.upto}
  ELSE Asked

\* The persisted submissions a row has to count.
LiveInStore(e) ==
  {i \in SubmittedUnder(e) :
     /\ i <= flushed
     /\ LocalMidnight(e.time) < max_cutoff => i > swept_upto}

\* C7: once a sweep has run under the lowered retention, the rows older than
\* the retention window are gone from the store and from every later read (a
\* read of such a day is empty unless actions of that day arrived after the
\* sweep), while the rows inside the window are there and are read with
\* their counts unchanged.
C7_ExpiredRowsGone ==
  /\ (delivered.kind = "read" /\ ~delivered.scrubbed) =>
       /\ \A i \in Live :
            Cardinality({n \in DOMAIN delivered.rows :
                           CountedUnder(delivered.seen[i], delivered.rows[n])}) = 1
       /\ \A n \in DOMAIN delivered.rows :
            /\ Under(delivered.rows[n]) \cap Live # {}
            /\ delivered.rows[n].count
                 = Cardinality(Under(delivered.rows[n]) \cap Live)
  /\ ~urls_removed =>
       /\ \A e \in Persisted :
            LiveInStore(e) # {} /\ e.count = Cardinality(LiveInStore(e))
       /\ \A i \in 1..flushed :
            (LocalMidnight(submitted[i].time) >= max_cutoff \/ i > swept_upto)
              => \E e \in Persisted : CountedUnder(submitted[i], e)

\* Retention lowered to two days, a sweep run: the read of a day before the
\* window is empty although actions of that day were submitted, and the store
\* still has the rows inside the window.
C7_Witness ==
  /\ retention_time = RetentionShort
  /\ delivered.kind = "read" /\ ~delivered.scrubbed
  /\ delivered.day < delivered.cutoff
  /\ Asked # {}
  /\ delivered.rows = <<>>
  /\ activity_rows # {}

\* A step of the database thread that sweeps: it stamps the cleaning time.
Sweeps ==
  /\ last_database_cleaning_time' # last_database_cleaning_time
  /\ last_database_cleaning_time' = now

\* C8: the cutoff of a sweep is local midnight of the day of (now -
\* retention): the sweep keeps, unchanged, exactly the rows of that day and of
\* later days, also those more than the retention before now, and deletes
\* the rows of earlier days.
C8_CutoffAtLocalMidnight ==
  [][Sweeps =>
       activity_rows' =
         {r \in activity_rows :
            LocalMidnight(r.time) >= LocalMidnight(now - retention_time)}]_vars

\* Now at noon, retention two days, everything persisted and swept: the row
\* of now - 2 days - 1 tick is there with count 1, the one of
\* now - 3 days - 1 tick is gone.
C8_Witness ==
  /\ retention_time = RetentionShort
  /\ Len(submitted) = 3 /\ flushed = 3 /\ swept_upto = 3
  /\ \E i \in DOMAIN submitted : submitted[i].time = T(3, 1)
  /\ \A r \in activity_rows : r.time # T(3, 1)
  /\ \E r \in activity_rows :
       /\ r.time = T(2, 1)
       /\ r.time < now - retention_time
       /\ r.count = 1

\* The table holds one entry for each of the ids and no other entry, and no
\* value twice.
ExactlyReferenced(table, ids) ==
  /\ Ids(table) = ids \ {NullId}
  /\ Cardinality(Ids(table)) = Cardinality(table)
  /\ Cardinality(Values(table)) = Cardinality(table)

\* C9: after a sweep the string table and the URL table hold exactly one
\* entry per string and per URL that the surviving rows refer to and nothing
\* else: the entries of expired rows alone are gone, a string shared by
\* several rows is there once.
C9_TablesExactlyReferenced ==
  [][Sweeps =>
       /\ ExactlyReferenced(
            string_ids',
            UNION {{r.extension_id, r.api_name, r.args} : r \in activity_rows'})
       /\ ExactlyReferenced(
            url_ids', UNION {{r.page_url, r.arg_url} : r \in activity_rows'})
       /\ Values(string_ids')
            = UNION {{ValueOf(string_ids, r.extension_id),
                      ValueOf(string_ids, r.api_name),
                      ValueOf(string_ids, r.args)} : r \in activity_rows'} \ {""}
       /\ Values(url_ids')
            = UNION {{ValueOf(url_ids, r.page_url),
                      ValueOf(url_ids, r.arg_url)} : r \in activity_rows'} \ {""}
    ]_vars

\* Everything persisted and then swept: the URL of the expired row is gone,
\* and the two surviving rows share their extension id: three strings, no URL.
C9_Witness ==
  /\ max_cutoff > NullTime
  /\ flushed = Len(submitted) /\ swept_upto = flushed
  /\ \E i \in DOMAIN submitted : submitted[i].page_url # NoUrl
  /\ url_ids = {}
  /\ Cardinality(activity_rows) = 2
  /\ Cardinality(string_ids) = 3
  /\ \A r \in activity_rows : ValueOf(string_ids, r.extension_id) = "punky"

ConnectAction ==
  WithArgs(Action(TestExtensionId, T(0, 0), ACTION_API_CALL,
                   "extension.connect"),
           <<"hello", "world">>)

ReadOfConnect ==
  /\ ReadExact
  /\ delivered.seen = <<ConnectAction>>
  /\ delivered.extension_id = TestExtensionId
  /\ delivered.day = LocalMidnight(MockClockStart)

\* C10 as claimed: the one extension.connect call is read back without
\* arguments, count 1.
C10_ConnectArgsStripped ==
  ReadOfConnect =>
    /\ Len(delivered.rows) = 1
    /\ delivered.rows[1].args = ""
    /\ delivered.rows[1].count = 1

\* C10, amended: the one extension.connect call with the arguments
\* ["hello","world"] is read back as one row of count 1 that keeps them:
\* extension.connect is among the APIs whose arguments are kept.
C10_ConnectArgsKept ==
  ReadOfConnect =>
    /\ Len(delivered.rows) = 1
    /\ delivered.rows[1].api_name = "extension.connect"
    /\ delivered.rows[1].args = "[\"hello\",\"world\"]"
    /\ delivered.rows[1].count = 1

C10_Witness == ReadOfConnect /\ Len(delivered.rows) = 1

\* The arguments an action is to be read back with.
ArgsAsLogged(a) ==
  IF /\ a.action_type = "api_call"
     /\ a.api_name \notin {"extension.connect", "extension.sendMessage"}
  THEN ""
  ELSE Serialize(a.args)

\* C11: an API call of extension.connect or extension.sendMessage is read
\* back with the arguments it was submitted with, an API call of another API
\* without arguments, a DOM access with its arguments.
C11_ArgsKeptOrStripped ==
  ReadExact =>
    /\ \A i \in Asked :
         \E n \in DOMAIN delivered.rows :
           /\ delivered.rows[n].action_type = delivered.seen[i].action_type
           /\ delivered.rows[n].api_name = delivered.seen[i].api_name
           /\ delivered.rows[n].args = ArgsAsLogged(delivered.seen[i])
    /\ \A n \in DOMAIN delivered.rows :
         \E i \in Asked :
           /\ delivered.rows[n].action_type = delivered.seen[i].action_type
           /\ delivered.rows[n].api_name = delivered.seen[i].api_name
           /\ delivered.rows[n].args = ArgsAsLogged(delivered.seen[i])

\* GetTodaysActions: extension.sendMessage read back with ["not","stripped"],
\* brewster, submitted with arguments, without any, the DOM access with
\* ["vamoose"], each with count 1.
C11_Witness ==
  /\ ReadExact
  /\ Len(delivered.rows) = 3
  /\ \A n \in DOMAIN delivered.rows : delivered.rows[n].count = 1
  /\ \E n \in DOMAIN delivered.rows :
       /\ delivered.rows[n].api_name = "extension.sendMessage"
       /\ delivered.rows[n].args = "[\"not\",\"stripped\"]"
  /\ \E n \in DOMAIN delivered.rows :
       /\ delivered.rows[n].api_name = "brewster"
       /\ delivered.rows[n].args = ""
       /\ \A i \in Under(delivered.rows[n]) : delivered.seen[i].args # NoArgs
  /\ \E n \in DOMAIN delivered.rows :
       /\ delivered.rows[n].action_type = "dom_access"
       /\ delivered.rows[n].args = "[\"vamoose\"]"

\* C12: actions whose arguments are stripped merge whatever their arguments:
\* the API calls of one extension, day, API and URLs that are off the list of
\* kept arguments are read back as one row, which counts them all and has no
\* arguments.
C12_StrippedArgsMerge ==
  ReadExact =>
    \A i \in Asked :
      LET a == delivered.seen[i]
          same == {j \in Asked :
                     /\ delivered.seen[j].action_type = a.action_type
                     /\ delivered.seen[j].api_name = a.api_name
                     /\ SerializeUrl(delivered.seen[j].page_url)
                          = SerializeUrl(a.page_url)
                     /\ SerializeUrl(delivered.seen[j].arg_url)
                          = SerializeUrl(a.arg_url)}
          rows == {n \in DOMAIN delivered.rows :
                     /\ delivered.rows[n].action_type = a.action_type
                     /\ delivered.rows[n].api_name = a.api_name
                     /\ delivered.rows[n].page_url = SerializeUrl(a.page_url)
                     /\ delivered.rows[n].arg_url = SerializeUrl(a.arg_url)}
      IN (/\ a.action_type = "api_call"
          /\ a.api_name \notin {"extension.connect", "extension.sendMessage"})
           => /\ Cardinality(rows) = 1
              /\ \A n \in rows :
                   /\ delivered.rows[n].args = ""
                   /\ delivered.rows[n].count = Cardinality(same)

\* GetTodaysActions: brewster with ["woof"] and brewster with ["meow"] are
\* read back as one row of count 2 without arguments.
C12_Witness ==
  /\ ReadExact
  /\ \E i, j \in Asked :
       /\ delivered.seen[i].args = <<"woof">>
       /\ delivered.seen[j].args = <<"meow">>
  /\ \E n \in DOMAIN delivered.rows :
       /\ delivered.rows[n].api_name = "brewster"
       /\ delivered.rows[n].args = ""
       /\ delivered.rows[n].count = 2
       /\ \A m \in DOMAIN delivered.rows :
            delivered.rows[m].api_name = "brewster" => m = n

\* C13: ReadData(extension_id, day_offset) returns the rows of that extension
\* and of the day today - day_offset and no other: every action submitted for
\* them is in a row, no row is of another extension, of a later or of an
\* earlier day.
C13_ReadDataOfExtensionAndDay ==
  delivered.kind = "read" =>
    /\ delivered.day = LocalMidnight(now) - delivered.day_offset * TicksPerDay
    /\ \A n \in DOMAIN delivered.rows :
         /\ delivered.rows[n].extension_id = delivered.extension_id
         /\ delivered.rows[n].time >= delivered.day
         /\ delivered.rows[n].time < delivered.day + TicksPerDay
    /\ ReadExact =>
         \A i \in DOMAIN delivered.seen :
           (\E n \in DOMAIN delivered.rows :
              CountedUnder(delivered.seen[i], delivered.rows[n]))
             <=> (/\ delivered.seen[i].extension_id = delivered.extension_id
                  /\ delivered.seen[i].time >= delivered.day
                  /\ delivered.seen[i].time < delivered.day + TicksPerDay)

\* GetOlderActions: actions of three days ago, of today and of seven days
\* ago; the read of three days ago returns the first alone.
C13_Witness ==
  /\ ReadExact
  /\ delivered.day_offset = 3
  /\ Len(delivered.rows) = 1
  /\ \E i, j \in DOMAIN delivered.seen :
       /\ delivered.seen[i].extension_id = delivered.extension_id
       /\ delivered.seen[i].time >= delivered.day + TicksPerDay
       /\ delivered.seen[j].extension_id = delivered.extension_id
       /\ delivered.seen[j].time < delivered.day

\* C14: the rows of a read are in descending order of time, whatever the
\* order of submission.
C14_DescendingTime ==
  delivered.kind = "read" =>
    \A n \in 1..Len(delivered.rows) - 1 :
      delivered.rows[n].time >= delivered.rows[n + 1].time

\* Three actions submitted from the earliest to the latest, read back from
\* the latest to the earliest.
C14_Witness ==
  /\ ReadExact
  /\ Len(delivered.seen) = 3
  /\ delivered.seen[1].time < delivered.seen[2].time
  /\ delivered.seen[2].time < delivered.seen[3].time
  /\ Len(delivered.rows) = 3
  /\ delivered.rows[1].time = delivered.seen[3].time
  /\ delivered.rows[2].time = delivered.seen[2].time
  /\ delivered.rows[3].time = delivered.seen[1].time

\* A filtered read whose rows no sweep and no scrub has touched.
FilteredExact == delivered.kind = "filtered" /\ delivered.exact

StartsWith(s, p) == \E k \in 0..Len(s) : SubSeq(s, 1, k) = p

\* The submitted action satisfies the read's constraints on the extension,
\* the type and the API name.
SatisfiesWho(a) ==
  /\ delivered.filter.extension_id # "" =>
       a.extension_id = delivered.filter.extension_id
  /\ delivered.filter.action_type # "any" =>
       a.action_type = delivered.filter.action_type
  /\ delivered.filter.api_name # "" =>
       StartsWith(a.api_name, delivered.filter.api_name)

\* The submitted action satisfies the read's constraints on the URLs.
SatisfiesWhere(a) ==
  /\ delivered.filter.page_url # "" =>
       StartsWith(SerializeUrl(a.page_url), delivered.filter.page_url)
  /\ delivered.filter.arg_url # "" =>
       SerializeUrl(a.arg_url) = delivered.filter.arg_url

RowsOf(a) ==
  {n \in DOMAIN delivered.rows : CountedUnder(a, delivered.rows[n])}

\* C15: a filtered read returns, over all days, each row that satisfies all
\* five constraints exactly once and no row that fails one of them; an empty
\* extension id, ACTION_ANY and an empty API name constrain nothing.
C15_FilteredReadExactlyMatches ==
  FilteredExact =>
    /\ \A i \in DOMAIN delivered.seen :
         Cardinality(RowsOf(delivered.seen[i])) =
           IF SatisfiesWho(delivered.seen[i])
              /\ SatisfiesWhere(delivered.seen[i])
           THEN 1 ELSE 0
    /\ \A n \in DOMAIN delivered.rows :
         /\ delivered.rows[n].count =
              Cardinality({i \in DOMAIN delivered.seen :
                             CountedUnder(delivered.seen[i], delivered.rows[n])})
         /\ delivered.rows[n].count > 0

\* LogAndFetchFilteredActions: no extension, ACTION_DOM_ACCESS, no API name:
\* of the API call and the DOM accesses of two extensions and two days, the two
\* DOM accesses are returned.
C15_Witness ==
  /\ FilteredExact
  /\ delivered.filter =
       [extension_id |-> "", action_type |-> "dom_access", api_name |-> "",
        page_url |-> "", arg_url |-> ""]
  /\ Len(delivered.seen) = 3
  /\ Len(delivered.rows) = 2
  /\ delivered.rows[1].extension_id # delivered.rows[2].extension_id
  /\ LocalMidnight(delivered.rows[1].time)
       # LocalMidnight(delivered.rows[2].time)

\* C16: the page URL of a filter is a prefix to match, its argument URL a
\* URL to equal: with nothing else constrained, a filtered read returns an
\* action if and only if its normalized page URL starts with the filter's
\* and its normalized argument URL is the filter's.
C16_PagePrefixArgExact ==
  FilteredExact =>
    \A i \in DOMAIN delivered.seen :
      LET a == delivered.seen[i]
          page == SerializeUrl(a.page_url)
          arg == SerializeUrl(a.arg_url)
      IN /\ RowsOf(a) # {} =>
              /\ delivered.filter.page_url # "" =>
                   /\ Len(delivered.filter.page_url) <= Len(page)
                   /\ SubSeq(page, 1, Len(delivered.filter.page_url))
                        = delivered.filter.page_url
              /\ delivered.filter.arg_url # "" =>
                   arg = delivered.filter.arg_url
         /\ (/\ SatisfiesWho(a)
             /\ page = "http://www.google.com/"
             /\ delivered.filter.page_url \in
                  {"http://www.goo", "http://www.google.com",
                   "http://www.google.com/"}
             /\ delivered.filter.arg_url = "")
              => RowsOf(a) # {}
         /\ (/\ SatisfiesWho(a)
             /\ delivered.filter.page_url = ""
             /\ delivered.filter.arg_url # "")
              => (RowsOf(a) # {} <=> arg = delivered.filter.arg_url)

\* The filter "http://www.goo" returns the row of page
\* "http://www.google.com/".
C16_Witness ==
  /\ FilteredExact
  /\ delivered.filter.page_url = "http://www.goo"
  /\ delivered.filter.arg_url = ""
  /\ \E n \in DOMAIN delivered.rows :
       delivered.rows[n].page_url = "http://www.google.com/"

\* A read posted after RemoveURLs, of a day no sweep has reached.
ReadAfterScrub ==
  /\ delivered.kind = "read"
  /\ delivered.after_scrub
  /\ delivered.day >= delivered.cutoff

\* The row agrees with the submitted action on all but the URLs and the title.
SameButUrls(a, row) ==
  /\ a.extension_id = row.extension_id
  /\ LocalMidnight(a.time) = LocalMidnight(row.time)
  /\ a.action_type = row.action_type
  /\ a.api_name = row.api_name
  /\ Serialize(StripArguments(a)) = row.args

NoUrls(row) == row.page_url = "" /\ row.page_title = "" /\ row.arg_url = ""

\* C17: after RemoveURLs with an empty list, every action submitted before
\* the call, flushed or still queued then, with or without an argument URL, is
\* read back with an empty page URL, page title and argument URL.
C17_EmptyListClearsAll ==
  (ReadAfterScrub /\ UrlsRemovedIn(pool) = {}) =>
    /\ \A i \in Asked :
         \E n \in DOMAIN delivered.rows :
           SameButUrls(delivered.seen[i], delivered.rows[n])
    /\ \A n \in DOMAIN delivered.rows : NoUrls(delivered.rows[n])

\* RemoveAllURLs: an action with an argument URL and one without, both read
\* back without URLs.
C17_Witness ==
  /\ ReadAfterScrub
  /\ UrlsRemovedIn(pool) = {}
  /\ Len(delivered.rows) = 2
  /\ \A n \in DOMAIN delivered.rows : NoUrls(delivered.rows[n])
  /\ \E i, j \in Asked :
       delivered.seen[i].arg_url # "" /\ delivered.seen[j].arg_url = ""

\* What a read shows of the i-th submission after a scrub of the listed
\* URLs: the page URL and the title cleared if and only if the page URL is
\* listed, the argument URL if and only if it is, everything else as logged.
ShownOf(i) ==
  LET a == delivered.seen[i]
      page == SerializeUrl(a.page_url) \in UrlsRemovedIn(pool)
      arg == SerializeUrl(a.arg_url) \in UrlsRemovedIn(pool)
  IN [extension_id |-> a.extension_id, day |-> LocalMidnight(a.time),
      action_type |-> a.action_type, api_name |-> a.api_name,
      args |-> Serialize(StripArguments(a)),
      page_url |-> IF page THEN "" ELSE SerializeUrl(a.page_url),
      page_title |-> IF page THEN "" ELSE a.page_title,
      arg_url |-> IF arg THEN "" ELSE SerializeUrl(a.arg_url)]

Shown(row) ==
  [extension_id |-> row.extension_id, day |-> LocalMidnight(row.time),
   action_type |-> row.action_type, api_name |-> row.api_name,
   args |-> row.args, page_url |-> row.page_url,
   page_title |-> row.page_title, arg_url |-> row.arg_url]

\* C18: after RemoveURLs with a list of URLs, a row's page URL and title are
\* cleared if and only if its page URL is listed and its argument URL if and
\* only if it is listed, the one whatever the other; fields that do not match
\* are as they were logged, and a listed URL that no row has changes nothing.
C18_ListedUrlsCleared ==
  (ReadAfterScrub /\ UrlsRemovedIn(pool) # {}) =>
    /\ \A i \in Asked :
         \E n \in DOMAIN delivered.rows : Shown(delivered.rows[n]) = ShownOf(i)
    /\ \A n \in DOMAIN delivered.rows :
         \E i \in Asked : Shown(delivered.rows[n]) = ShownOf(i)

\* RemoveSpecificURLs: a row with its page cleared and its argument URL kept,
\* one with its argument URL cleared and its page kept, one with both kept.
C18_Witness ==
  /\ ReadAfterScrub
  /\ "http://www.url_not_in_db.com/" \in UrlsRemovedIn(pool)
  /\ \E k, m, n \in DOMAIN delivered.rows :
       /\ delivered.rows[k].page_url = ""
       /\ delivered.rows[k].page_title = ""
       /\ delivered.rows[k].arg_url = "http://www.google.com/"
       /\ delivered.rows[m].page_url = "http://www.google.com/"
       /\ delivered.rows[m].page_title = "Google"
       /\ delivered.rows[m].arg_url = ""
       /\ delivered.rows[n].page_url = "http://www.google.com/"
       /\ delivered.rows[n].arg_url = "http://www.args-url.com/"

\* What a scrub leaves of a persisted row.
Kept(r) ==
  [rowid |-> r.rowid, extension_id |-> r.extension_id, day |-> r.day,
   action_type |-> r.action_type, api_name |-> r.api_name, args |-> r.args,
   time |-> r.time, count |-> r.count]

ScrubStep == writer_queue # <<>> /\ Head(writer_queue).kind = "remove_urls"

\* The keys, as logged, of the submissions a read was issued after.
KeysAsked == {MergeKey(Queued(delivered.seen[i])) : i \in Asked}

\* C19: a scrub deletes no row, leaves every row's count, time, extension,
\* type, API name and arguments as they are and merges no rows: a read
\* after the scrub returns as many rows as there are keys logged, with the
\* counts of all submissions, also when the scrub has made two rows equal in
\* every key field.
C19_ScrubKeepsRows ==
  /\ [](ReadAfterScrub =>
          /\ Len(delivered.rows) = Cardinality(KeysAsked)
          /\ SumCounts(delivered.rows) = Cardinality(Asked))
  /\ [][ScrubStep =>
          /\ Cardinality(activity_rows') = Cardinality(activity_rows)
          /\ {Kept(r) : r \in activity_rows'} = {Kept(r) : r \in activity_rows}
          /\ string_ids' = string_ids]_vars

\* SomeURLsRemoved: two rows of a read that the scrub has made equal in every
\* key field.
C19_Witness ==
  /\ ReadAfterScrub
  /\ \E m, n \in DOMAIN delivered.rows :
       m # n /\ Shown(delivered.rows[m]) = Shown(delivered.rows[n])

\* The strings an action is stored under.
StringsAsLogged(a) ==
  {a.extension_id, a.api_name, Serialize(StripArguments(a))} \ {""}

\* The reads waiting in the database thread's queue.
QueuedReads == {n \in DOMAIN writer_queue : writer_queue[n].kind = "query"}

\* The database thread runs the waiting read.
ReadRuns ==
  /\ QueuedReads # {}
  /\ \A n \in DOMAIN writer_queue' : writer_queue'[n].kind # "query"

\* C20: the database thread runs its tasks in the order of their posting: a
\* read posted after a flush runs when that flush has run and no later one
\* has, and it finds what the flush merged in the string table, in the store
\* and in its own rows.
C20_TasksInPostingOrder ==
  [][ReadRuns =>
       \A n \in QueuedReads :
         LET q == writer_queue[n]
             Handed(r) == {j \in 1..q.handed : CountedUnder(q.seen[j], r)}
         IN /\ flushed = q.handed
            /\ \A i \in 1..q.handed :
                 (~urls_removed /\ q.seen[i].time >= max_cutoff) =>
                   /\ StringsAsLogged(q.seen[i]) \subseteq Values(string_ids)
                   /\ \E r \in Persisted :
                        /\ CountedUnder(q.seen[i], r)
                        /\ r.count >= Cardinality(Handed(r))
                   /\ (/\ q.seen[i].extension_id = q.extension_id
                       /\ LocalMidnight(q.seen[i].time) = q.day) =>
                        \E m \in DOMAIN delivered'.rows :
                          /\ CountedUnder(q.seen[i], delivered'.rows[m])
                          /\ delivered'.rows[m].count >=
                               Cardinality(Handed(delivered'.rows[m]))]_vars

\* StringTableCleaning: a read posted after the flush of two submissions of
\* a key, run after that flush and its sweep, returns their row of the store.
C20_Witness ==
  /\ delivered.kind = "read"
  /\ delivered.exact
  /\ delivered.upto = 2
  /\ ~delivered.split
  /\ Len(delivered.seen) = 2
  /\ Len(delivered.rows) = 1
  /\ delivered.rows[1].count = 2

\* The batch the database thread is about to flush, if it is about to.
BatchAtHead ==
  IF writer_queue # <<>> /\ Head(writer_queue).kind = "flush"
  THEN Head(writer_queue).batch ELSE {}

\* What is merged into the persisted row r by the batch: the entries of its key.
MergedIntoRow(r) ==
  {e \in BatchAtHead :
     MergeKey(e) = MergeKey(FromRow(r, string_ids, url_ids))}

\* C24: every queued entry, every entry handed over and every persisted row
\* has a count of at least 1, and no step lowers or resets the count or the
\* time of an entry or row that stays: a merge adds the incoming count, which
\* is at least 1, and leaves the time at the later of the two.
C24_CountsOnlyGrow ==
  /\ [](/\ \A e \in queued_actions \cup InFlight : e.count >= 1
        /\ \A r \in activity_rows : r.count >= 1)
  /\ [][/\ \A r \in activity_rows : \A x \in activity_rows' :
             x.rowid = r.rowid =>
               /\ x.count >= r.count /\ x.time >= r.time
               /\ x.count = r.count => x.time = r.time
               /\ x.count > r.count =>
                    \E e \in MergedIntoRow(r) :
                      /\ x.count = r.count + e.count
                      /\ x.time = MaxTime(r.time, e.time)
        /\ \A e \in queued_actions : \A x \in queued_actions' :
             (MergeKey(x) = MergeKey(e) /\ x # e) =>
               /\ submitted' # submitted
               /\ x.count = e.count + 1
               /\ x.time = MaxTime(e.time, submitted'[Len(submitted')].time)]_vars

\* MoreMerging: a row of count 2 merged in the store from a later and then an
\* earlier action, the time of the later one kept.
C24_Witness ==
  /\ Len(submitted) = 2
  /\ submitted[2].time < submitted[1].time
  /\ \E r \in activity_rows :
       /\ r.rowid = 1
       /\ r.count = 2
       /\ r.time = submitted[1].time
  /\ swept_upto = 1
  /\ flushed = 2

\* The submitted action as one entry of a map: arguments and URLs as logged.
AsLogged(a) ==
  [extension_id |-> a.extension_id, time |-> a.time,
   action_type |-> a.action_type, api_name |-> a.api_name,
   args |-> Serialize(StripArguments(a)),
   page_url |-> SerializeUrl(a.page_url), page_title |-> a.page_title,
   arg_url |-> SerializeUrl(a.arg_url), count |-> 1]

\* The reference: all the actions merged, in their order, in a single map.
RECURSIVE SingleMap(_)
SingleMap(actions) ==
  IF actions = <<>> THEN {}
  ELSE LET map == SingleMap(SubSeq(actions, 1, Len(actions) - 1))
           e == AsLogged(actions[Len(actions)])
           hit == {x \in map : SameKeyAndDay(x, e)}
       IN IF hit = {} THEN map \cup {e}
          ELSE (map \ hit)
                 \cup {[x EXCEPT !.count = @ + 1,
                                 !.time = IF e.time > @ THEN e.time ELSE @] :
                         x \in hit}

\* The reference's entries of the read's extension and day.
ReferenceRows ==
  {x \in SingleMap(delivered.seen) :
     /\ x.extension_id = delivered.extension_id
     /\ LocalMidnight(x.time) = delivered.day}

\* C25: what a read returns does not depend on where the flushes fell
\* between the submissions, whether the merges happened in the buffer, in the
\* store or half in each: its rows are those of a single map in which all the
\* submissions were merged, with the same counts and times.
C25_ReadEqualsSingleMap ==
  ReadExact =>
    /\ Range(delivered.rows) = ReferenceRows
    /\ Len(delivered.rows) = Cardinality(ReferenceRows)

\* MoreMerging: three submissions of two keys, one key partly persisted and
\* partly still queued when it is read.
C25_Witness ==
  /\ ReadExact
  /\ delivered.split
  /\ Len(delivered.seen) = 3
  /\ Cardinality(ReferenceRows) = 2
  /\ \E x \in ReferenceRows : x.count = 2

\* The sum of the counts of a set of entries or rows: each count that
\* occurs, times the number of entries that have it.
RECURSIVE Weighted(_, _)
Weighted(counts, S) ==
  IF counts = {} THEN 0
  ELSE LET c == CHOOSE c \in counts : TRUE
       IN c * Cardinality({x \in S : x.count = c}) + Weighted(counts \ {c}, S)

CountsOf(S) == Weighted({x.count : x \in S}, S)

\* The counts of the batches handed to the database thread and not yet flushed.
RECURSIVE CountsInFlight(_)
CountsInFlight(queue) ==
  IF queue = <<>> THEN 0
  ELSE (IF Head(queue).kind = "flush" THEN CountsOf(Head(queue).batch) ELSE 0)
         + CountsInFlight(Tail(queue))

\* The submissions whose rows the sweeps have deleted: persisted by the last
\* sweep and of a day before its cutoff.
Expired ==
  {i \in 1..swept_upto : LocalMidnight(submitted[i].time) < max_cutoff}

\* C26: the counts of the queued entries, of the batches in flight and of the
\* persisted rows add up to the number of actions submitted less those whose
\* rows a sweep has deleted; so a submission adds 1 to the total and a flush, a
\* read and a scrub leave it as it is.
C26_CountConservation ==
  CountsOf(queued_actions) + CountsInFlight(writer_queue)
    + CountsOf(activity_rows)
    = Len(submitted) - Cardinality(Expired)

\* MergingAndExpiring: one action expired, one persisted, one still queued,
\* and the URLs scrubbed.
C26_Witness ==
  /\ Cardinality(Expired) = 1
  /\ CountsOf(activity_rows) = 1
  /\ CountsOf(queued_actions) = 1
  /\ urls_removed

\* The flush tasks in the database thread's queue.
FlushTasks(queue) == {n \in DOMAIN queue : queue[n].kind = "flush"}

MaintainStep ==
  /\ writer_queue # <<>> /\ Head(writer_queue).kind = "maintain"
  /\ writer_queue' = Tail(writer_queue)

\* C30: a maintain() no longer than the cleaning delay after the last
\* cleaning deletes no row, no string and no URL and leaves the cleaning time
\* as it is, also when rows older than the retention are in the store; one
\* that cleans sets the cleaning time to now.
C30_SweepRateLimited ==
  [][MaintainStep =>
       IF now - last_database_cleaning_time <= kCleaningDelay
       THEN UNCHANGED <<activity_rows, string_ids, url_ids,
                        last_database_cleaning_time>>
       ELSE last_database_cleaning_time' = now]_vars

\* A flush of an action older than the shortened retention, right after a
\* cleaning: its maintain() has run and the row is still there.
C30_Witness ==
  /\ last_database_cleaning_time = now
  /\ retention_time = RetentionShort
  /\ writer_queue = <<>>
  /\ swept_upto < flushed
  /\ \E r \in activity_rows :
       LocalMidnight(r.time) < LocalMidnight(now - retention_time)

\* What only the database thread may touch: the store, the tables, and the
\* result it hands to a callback.
writer_state == <<activity_rows, string_ids, url_ids, delivered>>

\* What the callers touch: the clock, the settings, the buffer.
caller_state ==
  <<now, retention_time, queued_actions, queued_actions_date, submitted, reads>>

\* C28: the store and the tables are read and changed only by a task of the
\* database thread, one task at a time: a step that changes them or delivers
\* a result takes exactly the first task off the queue and touches nothing of
\* the callers, and no other step takes a task off the queue.
C28_SingleWriter ==
  [][/\ writer_state' # writer_state =>
          /\ writer_queue # <<>>
          /\ writer_queue' = Tail(writer_queue)
          /\ caller_state' = caller_state
     /\ Len(writer_queue') >= Len(writer_queue) - 1
     /\ Len(writer_queue') < Len(writer_queue) =>
          /\ writer_queue' = Tail(writer_queue)
          /\ caller_state' = caller_state]_vars

\* A read has been delivered and rows scrubbed by tasks of the database
\* thread, while the callers have queued an action and posted more tasks.
C28_Witness ==
  /\ delivered.kind = "read"
  /\ urls_removed
  /\ \A n \in DOMAIN writer_queue : writer_queue[n].kind # "remove_urls"
  /\ activity_rows # {}
  /\ queued_actions # {}
  /\ writer_queue # <<>>

\* C21: when the close completes, nothing is left queued and no task is left
\* on the database thread, and every action logged before Close() is counted
\* in the store: the flush of what was queued ran before the database was
\* released, also when Close() came right after the last ProcessAction.
C21_CloseFlushesAll ==
  db = "closed" =>
    /\ queued_actions = {}
    /\ writer_queue = <<>>
    /\ flushed = Len(submitted)
    /\ CountsOf(activity_rows) = Len(submitted) - Cardinality(Expired)
    /\ \A n \in DOMAIN submitted :
         LocalMidnight(submitted[n].time) >= max_cutoff =>
           \E r \in activity_rows :
             MergeKey(FromRow(r, string_ids, url_ids))
               = MergeKey(Queued(submitted[n]))

\* Construct: the database is closed, and the actions still queued at the
\* Close() are in the store.
C21_Witness ==
  /\ db = "closed"
  /\ delivered.pending > 1
  /\ Cardinality(activity_rows) > 1
  /\ Len(submitted) = MaxSubmits

\* The batch of the flush task posted last.
LastBatch(queue) ==
  LET last == CHOOSE n \in FlushTasks(queue) :
                \A m \in FlushTasks(queue) : m <= n
  IN queue[last].batch

\* C23: with the database unavailable from the start, every ProcessAction is
\* still taken into the buffer, which never holds more entries than the
\* threshold, every read delivers a result and the result is empty, and
\* nothing is ever stored.
C23_UnavailableStoreDegrades ==
  /\ [](db = "unavailable" =>
          /\ Cardinality(queued_actions) <= kSizeThresholdForFlush
          /\ activity_rows = {}
          /\ delivered.kind \in {"read", "filtered"} => delivered.rows = <<>>)
  /\ [][db = "unavailable" /\ Len(submitted') > Len(submitted) =>
          LET key == MergeKey(Queued(submitted'[Len(submitted')]))
          IN \/ \E x \in queued_actions' : MergeKey(x) = key
             \/ /\ queued_actions' = {}
                /\ FlushTasks(writer_queue') # {}
                /\ \E x \in LastBatch(writer_queue') : MergeKey(x) = key]_vars

\* A read has delivered its result after actions were logged that no flush
\* had taken from the buffer, and more actions are queued.
C23_Witness ==
  /\ db = "unavailable"
  /\ delivered.kind \in {"read", "filtered"}
  /\ delivered.seen # <<>>
  /\ flushed = 0
  /\ writer_queue = <<>>
  /\ queued_actions # {}

\* The submissions a row counts.
CountedBy(r) ==
  {n \in DOMAIN submitted :
     MergeKey(Queued(submitted[n]))
       = MergeKey(FromRow(r, string_ids, url_ids))}

\* A flush has failed in this step.
FaultStep ==
  /\ writer_queue # <<>> /\ writer_queue' # <<>>
  /\ Task.kind = "flush"
  /\ writer_queue'[1] = [Task EXCEPT !.faults = @ + 1]

\* C22: a flush that fails part-way leaves the store as it was before the
\* flush, with none of the batch's merges, and the whole batch stays first
\* in line; the counts stay conserved through faults and retries, and once
\* nothing is queued or in flight each row's count is the number of
\* submissions of its key: no submission is counted twice or lost.
C22_FlushAllOrNothing ==
  /\ [][FaultStep =>
          /\ UNCHANGED <<activity_rows, string_ids, url_ids, queued_actions>>
          /\ writer_queue'[1].batch = Task.batch
          /\ Tail(writer_queue') = Tail(writer_queue)]_vars
  /\ [](CountsOf(queued_actions) + CountsInFlight(writer_queue)
          + CountsOf(activity_rows)
          = Len(submitted) - Cardinality(Expired))
  /\ [](queued_actions = {} /\ FlushTasks(writer_queue) = {} =>
          /\ \A r \in activity_rows : r.count = Cardinality(CountedBy(r))
          /\ \A n \in DOMAIN submitted : \E r \in activity_rows :
               n \in CountedBy(r))

\* A flush has failed whose batch merges into a row already stored, and
\* more actions are queued.
C22_Witness ==
  /\ writer_queue # <<>>
  /\ Task.kind = "flush"
  /\ Task.faults > 0
  /\ \E e \in Task.batch, r \in activity_rows :
       MergeKey(e) = MergeKey(FromRow(r, string_ids, url_ids))
  /\ queued_actions # {}

\* No caller is inside ProcessAction or Flush.
AllIdle == \A c \in Callers : in_progress[c].pc = "idle"

\* C27: with callers running ProcessAction and Flush side by side, the
\* buffer never holds two entries of one key; a step that hands a batch to
\* the database thread hands the whole buffer and leaves it empty, so no
\* entry is both handed over and still queued; and whenever no caller is
\* inside, no submission is lost or counted twice: the counts add up to the
\* submissions, and once all is flushed N submissions of a key are a count
\* of N.
C27_BufferMutationAtomic ==
  /\ [](Cardinality({MergeKey(x) : x \in queued_actions})
          = Cardinality(queued_actions))
  /\ [][Cardinality(FlushTasks(writer_queue'))
          > Cardinality(FlushTasks(writer_queue)) =>
          /\ queued_actions' = {}
          /\ LastBatch(writer_queue') = queued_actions]_vars
  /\ [](AllIdle =>
          CountsOf(queued_actions) + CountsInFlight(writer_queue)
            + CountsOf(activity_rows)
            = Len(submitted) - Cardinality(Expired))
  /\ [](AllIdle /\ queued_actions = {} /\ FlushTasks(writer_queue) = {} =>
          \A r \in activity_rows : r.count = Cardinality(CountedBy(r)))

\* One caller is about to hand over a batch in which submissions of one key
\* were merged, after an earlier batch was flushed.
C27_Witness ==
  /\ \E c \in Callers :
       /\ in_progress[c].pc = "swap"
       /\ \E x \in in_progress[c].batch : x.count > 1
  /\ activity_rows # {}

\* C31: the cleaning time starts as the null time, and a maintain() that
\* finds it null, at the start or after the test has reset it, cleans: it
\* deletes exactly the rows older than the cutoff of the retention time set
\* at that moment and sets the cleaning time to now, however recent the
\* cleaning before it.
C31_NullCleaningTimeSweeps ==
  /\ last_database_cleaning_time = NullTime
  /\ [][MaintainStep /\ last_database_cleaning_time = NullTime =>
          /\ last_database_cleaning_time' = now
          /\ activity_rows' =
               {r \in activity_rows :
                  r.time >= LocalMidnight(now - retention_time)}]_vars

\* MergingAndExpiring: a read after a first cleaning, the retention
\* shortened, the cleaning time reset, and a second cleaning, at the same
\* clock time, that has deleted below the cutoff of the shortened retention.
C31_Witness ==
  /\ delivered.kind = "read"
  /\ delivered.upto > 0
  /\ delivered.cutoff = NullTime
  /\ swept_upto > delivered.upto
  /\ max_cutoff = LocalMidnight(now - RetentionShort)
  /\ last_database_cleaning_time = now
  /\ \E n \in 1..delivered.upto :
       LocalMidnight(submitted[n].time) < max_cutoff

\* A cleaning is under way.
Sweeping == writer_queue # <<>> /\ Head(writer_queue).kind = "sweep"

\* The step the cleaning under way does next.
Stage == Head(Head(writer_queue).stages)

\* C32: in every cleaning the expired rows are gone before the referenced
\* ids are collected; the table entries are deleted only after that, by the
\* ids collected, which are still those the rows refer to; and while a
\* cleaning is under way only its own steps change the rows and the tables:
\* no flush runs in between.
C32_SweepStepOrder ==
  [][Sweeping =>
       /\ Stage = "referenced" =>
            \A r \in activity_rows : r.time >= Head(writer_queue).cutoff
       /\ Stage = "tables" =>
            /\ \A r \in activity_rows : r.time >= Head(writer_queue).cutoff
            /\ Head(writer_queue).strings
                 = UNION {{r.extension_id, r.api_name, r.args} :
                            r \in activity_rows}
            /\ Head(writer_queue).urls
                 = UNION {{r.page_url, r.arg_url} : r \in activity_rows}
       /\ activity_rows' # activity_rows => Stage = "rows"
       /\ <<string_ids, url_ids>>' # <<string_ids, url_ids>> =>
            /\ Stage = "tables"
            /\ Ids(string_ids') = Ids(string_ids) \cap Head(writer_queue).strings
            /\ Ids(url_ids') = Ids(url_ids) \cap Head(writer_queue).urls]_vars

\* StringTableCleaning: a cleaning has deleted an expired row and collected
\* the ids, a URL of the table is no longer referred to, and a flush posted
\* meanwhile is waiting behind the cleaning.
C32_Witness ==
  /\ Sweeping
  /\ Stage = "tables"
  /\ activity_rows # {}
  /\ \E x \in url_ids : x.id \notin Head(writer_queue).urls
  /\ \E n \in DOMAIN writer_queue : writer_queue[n].kind = "flush"

\* A read is carried out in this step.
QueryRuns ==
  /\ writer_queue # <<>>
  /\ Head(writer_queue).kind \in {"query", "filtered_query"}
  /\ writer_queue' = Tail(writer_queue)

\* C33: a read changes nothing: neither posting nor carrying out a ReadData
\* or ReadFilteredData changes the queued entries, the rows or the tables;
\* the second of two identical reads in a row delivers the rows the first
\* has delivered; and a read counts no more actions than were logged before
\* it, so no queued entry is counted twice.
C33_ReadsChangeNothing ==
  [][/\ QueryRuns \/ reads' # reads =>
          UNCHANGED <<queued_actions, activity_rows, string_ids, url_ids>>
     /\ QueryRuns /\ Head(writer_queue).again =>
          /\ delivered.kind \in {"read", "filtered"}
          /\ delivered.seen = Head(writer_queue).seen
          /\ Range(delivered'.rows) = Range(delivered.rows)
          /\ Len(delivered'.rows) = Len(delivered.rows)
     /\ QueryRuns =>
          SumCounts(delivered'.rows) <= Len(Head(writer_queue).seen)]_vars

\* The second of two identical reads has delivered a row that merges a
\* persisted row with an entry still queued.
C33_Witness ==
  /\ delivered.kind = "read"
  /\ reads = MaxReads
  /\ \A n \in DOMAIN writer_queue : writer_queue[n].kind # "query"
  /\ delivered.split
  /\ queued_actions # {}
  /\ \E n \in DOMAIN delivered.rows : delivered.rows[n].count > 1

\* The reads posted and not yet carried out.
QueriesQueued ==
  {n \in DOMAIN writer_queue :
     writer_queue[n].kind \in {"query", "filtered_query"}}

\* The callback of a read has been called.
Called == delivered.kind \in {"read", "filtered"}

\* C34: with the database thread running its tasks fairly, every read that
\* was posted has its callback called in the end, whatever flushes and
\* maintenance are ahead of it; the callback is called only by the step that
\* carries the read out, and once per read posted: each read posted is one
\* task, each task is carried out once and calls the callback with its
\* result, and no read is left without its callback.
C34_ReadsAreAnswered ==
  /\ (reads > 0) ~> (Called /\ QueriesQueued = {})
  /\ [][delivered' # delivered =>
          /\ QueryRuns
          /\ Cardinality(QueriesQueued') = Cardinality(QueriesQueued) - 1]_vars
  /\ [][Cardinality(QueriesQueued') # Cardinality(QueriesQueued) =>
          \/ QueryRuns
          \/ /\ reads' = reads + 1
             /\ Cardinality(QueriesQueued') = Cardinality(QueriesQueued) + 1]_vars
  /\ [][QueryRuns =>
          /\ delivered'.kind \in {"read", "filtered"}
          /\ delivered'.seen = Head(writer_queue).seen]_vars
  /\ [](/\ Cardinality(QueriesQueued) <= reads
        /\ reads > 0 /\ QueriesQueued = {} => Called)

\* A read is waiting behind a flush and its maintenance, with more actions
\* queued.
C34_Witness ==
  /\ Len(writer_queue) > 2
  /\ writer_queue[1].kind = "flush"
  /\ writer_queue[2].kind = "maintain"
  /\ QueriesQueued # {}
  /\ queued_actions # {}
  /\ ~Called

\* The first n actions logged are in the store.
Stored(n) ==
  /\ flushed >= n
  /\ \A i \in 1..n : \E r \in activity_rows :
       MergeKey(FromRow(r, string_ids, url_ids))
         = MergeKey(Queued(submitted[i]))

\* C35: with the timer and the database thread running fairly, queued
\* entries do not stay queued: whenever the buffer is not empty, all the
\* actions logged so far are in the store in the end, also when the
\* threshold is never reached and nothing more is logged, read or closed.
C35_TimerFlushes ==
  \A n \in 1..MaxLiveSubmits :
    (queued_actions # {} /\ Len(submitted) = n) ~> Stored(n)

\* One action was logged, far below the threshold, and it is in the store:
\* only the timer's flush can have handed it over.
C35_Witness ==
  /\ Len(submitted) = 1
  /\ Stored(1)
  /\ queued_actions = {}
  /\ writer_queue = <<>>
  /\ \A r \in activity_rows : r.count = 1

====
